---- MODULE Spec2Model ----
(***************************************************************************)
(* Model of the WhatsApp sales bot: the Conversation Store (database.js     *)
(* over the leads / chat_history tables), the Responder (ai.js), the        *)
(* Message Gateway (whatsapp.js) and the history endpoint (routes/          *)
(* messages.js).                                                            *)
(*                                                                          *)
(* Strings are sequences of one-character strings, so that toLowerCase,    *)
(* includes and the regular expressions are computed character by          *)
(* character.  Every `await` of the code is a step boundary: the steps of   *)
(* two messages.upsert handlers interleave there.                           *)
(***************************************************************************)
EXTENDS Integers, Sequences, FiniteSets, TLC

\* ------------------------------------------------------------------ bounds
\* number of messages.upsert events delivered in one run
MaxEvents == 2
\* total inbound messages over all events of one run
MaxInbound == 2
\* number of failures of the environment (a storage error, a rejected send,
\* an unreadable catalog, a failed model call) in one run
MaxFaults == 2
\* largest `limit` asked of GET /api/messages/history
MaxLimit == 2
\* number of chat_history rows inserted in one run of the store alone
MaxRows == 3
MaxCatalog == 5
MaxPhoneLen == 11
MaxSeparators == 2
\* number of sockets makeWASocket creates in one run
MaxSockets == 3
\* number of POST /api/messages/send requests in one run
MaxSends == 2
\* number of rows the orders and leads endpoints write in one run
MaxWrites == 3
\* longest phoneNumbers array of POST /api/messages/broadcast, and the
\* number of messages the broadcasts of one run may deliver
MaxRecipients == 3

\* ----------------------------------------------------------------- strings
NULL == <<"NULL">>

UpperChars ==
  <<"A","B","C","D","E","F","G","H","I","J","K","L","M",
    "N","O","P","Q","R","S","T","U","V","W","X","Y","Z">>
LowerChars ==
  <<"a","b","c","d","e","f","g","h","i","j","k","l","m",
    "n","o","p","q","r","s","t","u","v","w","x","y","z">>
DigitChars == {"0","1","2","3","4","5","6","7","8","9"}

IsUpper(c) == \E i \in 1..26 : UpperChars[i] = c
IsLower(c) == \E i \in 1..26 : LowerChars[i] = c

\* String.prototype.toLowerCase / toUpperCase, per character
LowerChar(c) ==
  IF IsUpper(c) THEN LowerChars[CHOOSE i \in 1..26 : UpperChars[i] = c] ELSE c
UpperChar(c) ==
  IF IsLower(c) THEN UpperChars[CHOOSE i \in 1..26 : LowerChars[i] = c] ELSE c
toLowerCase(s) == [i \in 1..Len(s) |-> LowerChar(s[i])]

\* String.prototype.includes
includes(s, k) ==
  \E i \in 1..(Len(s) - Len(k) + 1) : SubSeq(s, i, i + Len(k) - 1) = k

\* regex classes \w and \s and [a-zA-Z\s]
IsWordChar(c) == IsUpper(c) \/ IsLower(c) \/ c \in DigitChars \/ c = "_"
IsSpace(c) == c = " "
IsCityChar(c) == IsUpper(c) \/ IsLower(c) \/ IsSpace(c)

\* String.prototype.trim
RECURSIVE trim(_)
trim(s) ==
  IF s = <<>> THEN s
  ELSE IF IsSpace(Head(s)) THEN trim(Tail(s))
  ELSE IF IsSpace(s[Len(s)]) THEN trim(SubSeq(s, 1, Len(s) - 1))
  ELSE s

\* JavaScript truthiness of a string-or-null value
Truthy(v) == v # NULL /\ v # <<>>

\* --------------------------------------------------------------- Responder
kwAgent == <<"a","g","e","n","t">>
kwHuman == <<"h","u","m","a","n">>
kwSpeak == <<"s","p","e","a","k"," ","t","o"," ","s","o","m","e","o","n","e">>
kwTalk == <<"t","a","l","k"," ","t","o"," ","p","e","r","s","o","n">>
kwReal == <<"r","e","a","l"," ","p","e","r","s","o","n">>
agentKeywords == {kwAgent, kwHuman, kwSpeak, kwTalk, kwReal}

\* ai.js isAgentRequested: lower-case the message, then substring search
isAgentRequested(message) ==
  LET lowerMessage == toLowerCase(message)
  IN  \E keyword \in agentKeywords : includes(lowerMessage, keyword)

\* the literal heads of the five name patterns, /<head>(\w+)/i, in order
namePatterns ==
  << <<"m","y"," ","n","a","m","e"," ","i","s"," ">>,
     <<"i","'","m"," ">>,
     <<"i"," ","a","m"," ">>,
     <<"c","a","l","l"," ","m","e"," ">>,
     <<"t","h","i","s"," ","i","s"," ">> >>

\* the literal heads of the four city patterns,
\* /<head>([A-Z][a-zA-Z\s]+?)(?:\.|,|$)/, in order (no i flag)
cityPatterns ==
  << <<"f","r","o","m"," ">>,
     <<"i","n"," ">>,
     <<"l","i","v","e"," ","i","n"," ">>,
     <<"c","i","t","y"," ","i","s"," ">> >>

\* positions where /<head>(\w+)/i matches: the head, compared case-
\* insensitively, followed by at least one word character
NameMatchAt(message, head, i) ==
  /\ i + Len(head) <= Len(message)
  /\ toLowerCase(SubSeq(message, i, i + Len(head) - 1)) = head
  /\ IsWordChar(message[i + Len(head)])

\* the greedy (\w+) group that starts at position j
WordRun(message, j) ==
  LET e == CHOOSE e \in j..Len(message) :
             /\ \A x \in j..e : IsWordChar(message[x])
             /\ (e = Len(message) \/ ~IsWordChar(message[e + 1]))
  IN  SubSeq(message, j, e)

\* message.match(pattern)[1] for a name pattern, NULL when there is no match
NameCapture(message, head) ==
  LET at == {i \in 1..Len(message) : NameMatchAt(message, head, i)}
  IN  IF at = {} THEN NULL
      ELSE LET i == CHOOSE i \in at : \A k \in at : i <= k
           IN  WordRun(message, i + Len(head))

\* the lazy city group that starts at j: the shortest [A-Z][a-zA-Z\s]+
\* that is followed by ".", "," or the end of the input
CityEnds(message, j) ==
  {k \in (j + 1)..Len(message) :
     /\ \A x \in (j + 1)..k : IsCityChar(message[x])
     /\ (k = Len(message) \/ message[k + 1] \in {".", ","})}

CityMatchAt(message, head, i) ==
  /\ i + Len(head) <= Len(message)
  /\ SubSeq(message, i, i + Len(head) - 1) = head
  /\ IsUpper(message[i + Len(head)])
  /\ CityEnds(message, i + Len(head)) # {}

CityCapture(message, head) ==
  LET at == {i \in 1..Len(message) : CityMatchAt(message, head, i)}
  IN  IF at = {} THEN NULL
      ELSE LET i == CHOOSE i \in at : \A k \in at : i <= k
               j == i + Len(head)
               e == CHOOSE e \in CityEnds(message, j) :
                      \A k \in CityEnds(message, j) : e <= k
           IN  SubSeq(message, j, e)

\* the first pattern of the list that matches wins (the loops break)
RECURSIVE FirstName(_, _)
FirstName(message, n) ==
  IF n > Len(namePatterns) THEN NULL
  ELSE IF NameCapture(message, namePatterns[n]) # NULL
       THEN NameCapture(message, namePatterns[n])
       ELSE FirstName(message, n + 1)

RECURSIVE FirstCity(_, _)
FirstCity(message, n) ==
  IF n > Len(cityPatterns) THEN NULL
  ELSE IF CityCapture(message, cityPatterns[n]) # NULL
       THEN CityCapture(message, cityPatterns[n])
       ELSE FirstCity(message, n + 1)

\* ai.js extractCustomerInfo
extractCustomerInfo(message) ==
  LET nm == FirstName(message, 1)
      ct == FirstCity(message, 1)
  IN  [name |-> IF nm = NULL THEN NULL
                ELSE <<UpperChar(Head(nm))>> \o toLowerCase(Tail(nm)),
       city |-> IF ct = NULL THEN NULL ELSE trim(ct)]

NoInfo == [name |-> NULL, city |-> NULL]

\* the three fixed texts of ai.js and the three of whatsapp.js
AgentReply == <<"I understand you'd like to speak with a human agent...">>
FallbackReply == <<"I'm having a little trouble right now...">>
HumanSoonReply == <<"A human agent will contact you soon!">>
ApologyReply == <<"Sorry, I'm having technical difficulties...">>
\* the text an answering model produces
ModelReply == <<"(model reply)">>

\* what the fetch of callOllama can produce:
\*   "ok"        200, body {message: {content: <text>}}
\*   "network"   fetch rejects
\*   "status"    response.ok is false
\*   "badjson"   response.json() rejects
\*   "nomessage" 200, body without `message`: data.message.content throws
\*   "nocontent" 200, body {message: {}}: data.message.content is undefined
OllamaOutcomes == {"ok", "network", "status", "badjson", "nomessage", "nocontent"}

\* ai.js callOllama: [threw, value]
callOllama(outcome) ==
  CASE outcome = "ok" -> [threw |-> FALSE, value |-> ModelReply]
    [] outcome = "nocontent" -> [threw |-> FALSE, value |-> NULL]
    [] OTHER -> [threw |-> TRUE, value |-> NULL]

\* the three shapes of the object generateResponse returns; NoResponse is
\* the value of `response` before generateResponse has returned
NoResponse ==
  [message |-> NULL,
   metadata |-> [keys |-> {}, agentRequested |-> FALSE,
                 extractedInfo |-> NoInfo, error |-> FALSE]]
AgentResponse ==
  [message |-> AgentReply,
   metadata |-> [keys |-> {"agentRequested"}, agentRequested |-> TRUE,
                 extractedInfo |-> NoInfo, error |-> FALSE]]
ErrorResponse ==
  [message |-> FallbackReply,
   metadata |-> [keys |-> {"error", "errorMessage"}, agentRequested |-> FALSE,
                 extractedInfo |-> NoInfo, error |-> TRUE]]
ModelResponse(userMessage, aiResponse) ==
  [message |-> aiResponse,
   metadata |-> [keys |-> {"extractedInfo", "relevantProducts", "agentRequested"},
                 agentRequested |-> FALSE,
                 extractedInfo |-> extractCustomerInfo(userMessage),
                 error |-> FALSE]]

\* ai.js generateResponse up to its second await: the catalog is loaded
\* first, then the handoff keywords are looked for; "call" means that the
\* request to the model is sent
generateResponseHead(userMessage, loaded) ==
  IF ~loaded THEN [call |-> FALSE, response |-> ErrorResponse]
  ELSE IF isAgentRequested(userMessage)
       THEN [call |-> FALSE, response |-> AgentResponse]
       ELSE [call |-> TRUE, response |-> NoResponse]

\* ai.js generateResponse after the model call: the catch turns a throw of
\* callOllama into the fallback reply
generateResponseTail(userMessage, outcome) ==
  LET r == callOllama(outcome)
  IN  IF r.threw THEN ErrorResponse ELSE ModelResponse(userMessage, r.value)

\* ------------------------------------------------------ Conversation Store
VARIABLES
  leads,          \* table leads: a sequence of rows, a row's id is its position
  chat_history,   \* table chat_history: a sequence of rows in insertion order
  clock,          \* now() of the database, advanced by every write
  productsData,   \* ai.js productsData: TRUE once the catalog is cached
  faults,         \* number of failures of the environment so far
  handlers,       \* the invocations of the messages.upsert listener
  inbound,        \* number of inbound messages delivered so far
  ollamaCalls,    \* the requests made to the external model, in order
  sent,           \* what sock.sendMessage delivered, in order
  sock,           \* whatsapp.js sock: 0 (null) or the number of a socket
  isConnected,    \* whatsapp.js isConnected
  socks,          \* the state of every socket makeWASocket has created
  timers,         \* pending setTimeout(() => initWhatsApp(), 3000) callbacks
  initState,      \* how the last initWhatsApp call ended
  lastClose,      \* the reason of the last connection close
  http,           \* the answer to the last HTTP request
  orders,         \* table orders: a sequence of rows, a row's id is its position
  req             \* the HTTP request whose handler is between two awaits

vars == <<leads, chat_history, clock, productsData, faults, handlers,
          inbound, ollamaCalls, sent, sock, isConnected, socks, timers,
          initState, lastClose, http, orders, req>>

storeVars == <<leads, chat_history, clock>>
connVars == <<sock, isConnected, socks, timers, initState, lastClose>>

\* a row of leads as the INSERT of getOrCreateLead makes it, the other
\* columns taking their DEFAULT of the CREATE TABLE
NewLead(id, phoneNumber, ts) ==
  [id |-> id, phone_number |-> phoneNumber, customer_name |-> NULL,
   city |-> NULL, status |-> "new", needs_human_agent |-> FALSE,
   last_message_at |-> ts, created_at |-> ts, updated_at |-> ts]

\* the value of `lead` before getOrCreateLead has returned
NoLead == NewLead(0, NULL, 0)

LeadIdsByPhone(ls, phoneNumber) ==
  {i \in 1..Len(ls) : ls[i].phone_number = phoneNumber}

\* .select('*').eq('phone_number', p).maybeSingle(): no row is data = null,
\* one row is that row, several rows are an error
SelectLead(ls, phoneNumber) ==
  LET ids == LeadIdsByPhone(ls, phoneNumber)
  IN  IF ids = {} THEN [error |-> FALSE, data |-> NoLead]
      ELSE IF Cardinality(ids) = 1
           THEN [error |-> FALSE, data |-> ls[CHOOSE i \in ids : TRUE]]
           ELSE [error |-> TRUE, data |-> NoLead]

\* (variant) the table without the UNIQUE constraint
UniquePhoneOk_unconstrained(ls, phoneNumber) == TRUE

\* phone_number text UNIQUE NOT NULL: whether the INSERT is accepted
UniquePhoneOk(ls, phoneNumber) == LeadIdsByPhone(ls, phoneNumber) = {}

\* (variant) the UPDATE writes the payload of the INSERT as well
TouchLead_resets(l, ts) ==
  [l EXCEPT !.status = "new", !.last_message_at = ts, !.updated_at = ts]

\* getOrCreateLead, the UPDATE of an existing lead
TouchLead(l, ts) == [l EXCEPT !.last_message_at = ts, !.updated_at = ts]

\* markForHumanAgent, the UPDATE
MarkLead(l, ts) ==
  [l EXCEPT !.needs_human_agent = TRUE, !.status = "qualified",
            !.updated_at = ts]

\* (variant) both columns are written whatever was extracted
UpdateLeadRow_overwrites(l, info, ts) ==
  [l EXCEPT !.customer_name = info.name, !.city = info.city, !.updated_at = ts]

\* updateLead with the updates the gateway builds from extractedInfo
UpdateLeadRow(l, info, ts) ==
  [l EXCEPT !.customer_name = IF Truthy(info.name) THEN info.name ELSE @,
            !.city = IF Truthy(info.city) THEN info.city ELSE @,
            !.updated_at = ts]

\* a row of chat_history as saveChatMessage inserts it
ChatRow(leadId, phoneNumber, role, message, metadata, ts) ==
  [lead_id |-> leadId, phone_number |-> phoneNumber, role |-> role,
   message |-> message, metadata |-> metadata, created_at |-> ts]

\* message text NOT NULL
ChatRowOk(message) == message # NULL

\* ORDER BY created_at ASC of a set of rows
RECURSIVE SortAsc(_)
SortAsc(rows) ==
  IF rows = {} THEN <<>>
  ELSE LET r == CHOOSE r \in rows : \A q \in rows : r.created_at <= q.created_at
       IN  <<r>> \o SortAsc(rows \ {r})

\* LIMIT n
Limit(rows, n) == SubSeq(rows, 1, IF n < Len(rows) THEN n ELSE Len(rows))

\* database.js getChatHistory:
\* .eq('phone_number', p).order('created_at', {ascending: true}).limit(limit)
getChatHistory(ch, phoneNumber, limit) ==
  Limit(SortAsc({ch[i] : i \in {k \in 1..Len(ch) : ch[k].phone_number = phoneNumber}}),
        limit)

\* --------------------------------------------------------- Message Gateway
WaSuffix == "@s.whatsapp.net"
jidA == <<"1", "7", WaSuffix>>
jidB == <<"1", "8", WaSuffix>>
jidGroup == <<"1", "7", "-", "9", "@g.us">>
jidStatus == <<"status", "@broadcast">>

txtHi == <<"h","i">>
txtAgent == <<"A","n"," ","A","g","e","n","t">>
txtName == <<"i"," ","a","m"," ","b","o","b">>
txtCity == <<"f","r","o","m"," ","R","o","m","e">>

\* a Baileys message: key.remoteJid, key.fromMe, message.conversation,
\* message.extendedTextMessage.text (NULL where the field is absent)
Msg(jid, fromMe, conversation, extendedText) ==
  [key |-> [remoteJid |-> jid, fromMe |-> fromMe],
   message |-> [conversation |-> conversation, extendedText |-> extendedText]]

\* the inbound messages of the model: four texts of one customer, one of a
\* second customer, and one of each kind the gateway drops
Msgs ==
  { Msg(jidA, FALSE, txtHi, NULL),
    Msg(jidA, FALSE, NULL, txtAgent),
    Msg(jidA, FALSE, txtName, NULL),
    Msg(jidA, FALSE, txtCity, NULL),
    Msg(jidB, FALSE, txtHi, NULL),
    Msg(jidGroup, FALSE, txtHi, NULL),
    Msg(jidStatus, FALSE, txtHi, NULL),
    Msg(jidA, TRUE, txtHi, NULL),
    Msg(jidA, FALSE, NULL, NULL) }

Batches(n) == UNION {[1..k -> Msgs] : k \in 1..n}

\* message.message?.conversation || message.message?.extendedTextMessage?.text || ''
messageText(m) ==
  IF Truthy(m.message.conversation) THEN m.message.conversation
  ELSE IF Truthy(m.message.extendedText) THEN m.message.extendedText
  ELSE <<>>

\* (variant) the test of key.fromMe is missing
Ignored_echoes(m) ==
  \/ \E i \in 1..Len(m.key.remoteJid) : m.key.remoteJid[i] = "@g.us"
  \/ m.key.remoteJid = jidStatus
  \/ ~Truthy(messageText(m))

\* handleIncomingMessage, the three early returns
Ignored(m) ==
  \/ \E i \in 1..Len(m.key.remoteJid) : m.key.remoteJid[i] = "@g.us"
  \/ m.key.remoteJid = jidStatus
  \/ m.key.fromMe
  \/ ~Truthy(messageText(m))

\* the positions of handleIncomingMessage between two awaits
HandlerPcs ==
  {"start", "lead_write", "save_user", "send_human", "history", "respond",
   "model", "mark", "update", "save_asst", "send", "catch", "done"}

\* one invocation of the listener: `rest` are the messages of the event the
\* for loop has not finished yet (the first one is being handled), `handled`
\* counts those whose handleIncomingMessage has returned, out of `size`;
\* `outcome` is how the fetch of callOllama ended, `error` what was thrown
NewHandler(batch) ==
  [rest |-> batch, handled |-> 0, size |-> Len(batch), pc |-> "start",
   existing |-> NoLead, lead |-> NoLead, chatHistory |-> <<>>,
   outcome |-> "none", response |-> NoResponse, error |-> "none"]

Cur(h) == Head(handlers[h].rest)
phoneNumberOf(h) == Cur(h).key.remoteJid

\* handleIncomingMessage has returned: the for loop of the listener goes to
\* the next message of the batch, or the listener ends
Finish(hr) ==
  [hr EXCEPT !.rest = Tail(@), !.handled = @ + 1,
             !.pc = IF Len(hr.rest) = 1 THEN "done" ELSE "start",
             !.existing = NoLead, !.lead = NoLead, !.chatHistory = <<>>,
             !.outcome = "none", !.response = NoResponse, !.error = "none"]

\* a throw inside the try block of handleIncomingMessage: control is in the
\* catch block, where the constants of the try block are out of scope
Thrown(hr, error) ==
  [hr EXCEPT !.pc = "catch", !.existing = NoLead, !.lead = NoLead,
             !.chatHistory = <<>>, !.outcome = "none",
             !.response = NoResponse, !.error = error]

\* (variant) the apology is sent outside a try/catch of its own: a failed
\* apology rejects the promise of the listener, whose for loop is abandoned
AfterApology_rethrows(hr, delivered) ==
  IF delivered THEN Finish(hr) ELSE [hr EXCEPT !.pc = "rejected"]

\* the catch block once its own sendMessage has settled: the inner
\* try/catch swallows a failed apology, handleIncomingMessage returns
AfterApology(hr, delivered) == Finish(hr)

\* whatsapp.js, lines 137-153: what follows generateResponse
HasUpdates(response) ==
  /\ "extractedInfo" \in response.metadata.keys
  /\ \/ Truthy(response.metadata.extractedInfo.name)
     \/ Truthy(response.metadata.extractedInfo.city)

\* (variant) the reply is sent right after the Responder returned
AfterResponse_sendsFirst(response) == "send"

AfterResponse(response) ==
  IF response.metadata.agentRequested THEN "mark"
  ELSE IF HasUpdates(response) THEN "update"
  ELSE "save_asst"

AfterMark(response) == IF HasUpdates(response) THEN "update" ELSE "save_asst"

\* (variant) the test of needs_human_agent is missing
AfterUserTurn_unchecked(lead) == "history"

\* whatsapp.js, lines 124-131: a lead flagged for a human agent gets the
\* fixed reply, any other lead goes on to the Responder
AfterUserTurn(lead) == IF lead.needs_human_agent THEN "send_human" ELSE "history"

\* whatsapp.js sendMessage: the guard; past it sock.sendMessage may reject
CanSend == sock # 0 /\ isConnected

\* whether a call to the environment fails: it may, while the run has
\* failures left
Outcomes == IF faults < MaxFaults THEN {TRUE, FALSE} ELSE {FALSE}
Fault(failed) == faults' = IF failed THEN faults + 1 ELSE faults

\* (variant) events are queued: the listener is called with the next event
\* only when the listener of every earlier event has ended
Upsert_queued(type, batch) ==
  /\ \A h \in DOMAIN handlers : handlers[h].pc = "done"
  /\ inbound' = inbound + Len(batch)
  /\ handlers' = IF type # "notify" THEN handlers
                 ELSE Append(handlers, NewHandler(batch))
  /\ UNCHANGED <<orders, req, storeVars, productsData, faults, ollamaCalls, sent,
                 connVars, http>>

\* the sock.ev.on('messages.upsert') listener is called with an event
Upsert(type, batch) ==
  /\ inbound' = inbound + Len(batch)
  /\ handlers' = IF type # "notify" THEN handlers
                 ELSE Append(handlers, NewHandler(batch))
  /\ UNCHANGED <<orders, req, storeVars, productsData, faults, ollamaCalls, sent,
                 connVars, http>>

\* handleIncomingMessage from its entry to the SELECT of getOrCreateLead
Start(h) ==
  /\ h \in DOMAIN handlers
  /\ handlers[h].pc = "start"
  /\ IF Ignored(Cur(h))
     THEN /\ handlers' = [handlers EXCEPT ![h] = Finish(@)]
          /\ UNCHANGED faults
     ELSE \E dbError \in Outcomes :
            LET r == SelectLead(leads, phoneNumberOf(h))
            IN  /\ Fault(dbError)
                /\ handlers' = [handlers EXCEPT ![h] =
                     IF dbError \/ r.error THEN Thrown(@, "storage")
                     ELSE [@ EXCEPT !.pc = "lead_write", !.existing = r.data]]
  /\ UNCHANGED <<orders, req, storeVars, productsData, inbound, ollamaCalls, sent,
                 connVars, http>>

\* getOrCreateLead, the UPDATE or the INSERT
LeadWrite(h) ==
  /\ h \in DOMAIN handlers
  /\ handlers[h].pc = "lead_write"
  /\ \E dbError \in Outcomes :
       LET hr == handlers[h]
           ts == clock + 1
           id == hr.existing.id
           refused == dbError \/ (id = 0 /\ ~UniquePhoneOk(leads, phoneNumberOf(h)))
       IN  /\ Fault(dbError)
           /\ IF refused
              THEN /\ handlers' = [handlers EXCEPT ![h] =
                        Thrown(@, IF dbError THEN "storage" ELSE "unique")]
                   /\ UNCHANGED storeVars
              ELSE /\ leads' = IF id # 0
                               THEN [leads EXCEPT ![id] = TouchLead(@, ts)]
                               ELSE Append(leads,
                                      NewLead(Len(leads) + 1, phoneNumberOf(h), ts))
                   /\ clock' = ts
                   /\ handlers' = [handlers EXCEPT ![h] =
                        [@ EXCEPT !.pc = "save_user", !.existing = NoLead,
                                  !.lead = leads'[IF id # 0 THEN id ELSE Len(leads')]]]
                   /\ UNCHANGED chat_history
  /\ UNCHANGED <<orders, req, productsData, inbound, ollamaCalls, sent, connVars, http>>

\* saveChatMessage(lead.id, phoneNumber, 'user', messageText), then the test
\* of lead.needs_human_agent
SaveUser(h) ==
  /\ h \in DOMAIN handlers
  /\ handlers[h].pc = "save_user"
  /\ \E dbError \in Outcomes :
       LET hr == handlers[h]
           ts == clock + 1
           text == messageText(Cur(h))
       IN  /\ Fault(dbError)
           /\ IF dbError \/ ~ChatRowOk(text)
              THEN /\ handlers' = [handlers EXCEPT ![h] =
                        Thrown(@, IF dbError THEN "storage" ELSE "notnull")]
                   /\ UNCHANGED storeVars
              ELSE /\ chat_history' = Append(chat_history,
                        ChatRow(hr.lead.id, phoneNumberOf(h), "user", text, NULL, ts))
                   /\ clock' = ts
                   /\ handlers' = [handlers EXCEPT ![h].pc = AfterUserTurn(hr.lead)]
                   /\ UNCHANGED leads
  /\ UNCHANGED <<orders, req, productsData, inbound, ollamaCalls, sent, connVars, http>>

\* sendMessage(phoneNumber, "A human agent will contact you soon!"); return
SendHuman(h) ==
  /\ h \in DOMAIN handlers
  /\ handlers[h].pc = "send_human"
  /\ \E rejected \in (IF CanSend THEN Outcomes ELSE {FALSE}) :
       /\ Fault(rejected)
       /\ IF CanSend /\ ~rejected
          THEN /\ sent' = Append(sent, [to |-> phoneNumberOf(h), text |-> HumanSoonReply])
               /\ handlers' = [handlers EXCEPT ![h] = Finish(@)]
          ELSE /\ handlers' = [handlers EXCEPT ![h] = Thrown(@, "send")]
               /\ UNCHANGED sent
  /\ UNCHANGED <<orders, req, storeVars, productsData, inbound, ollamaCalls, connVars, http>>

\* getChatHistory(phoneNumber, 10)
History(h) ==
  /\ h \in DOMAIN handlers
  /\ handlers[h].pc = "history"
  /\ \E dbError \in Outcomes :
       /\ Fault(dbError)
       /\ handlers' = [handlers EXCEPT ![h] =
            IF dbError THEN Thrown(@, "storage")
            ELSE [@ EXCEPT !.pc = "respond",
                           !.chatHistory = getChatHistory(chat_history, phoneNumberOf(h), 10)]]
  /\ UNCHANGED <<orders, req, storeVars, productsData, inbound, ollamaCalls, sent,
                 connVars, http>>

\* callOllama: the messages of the request after the system prompt
OllamaMessages(fullHistory) ==
  [i \in 1..Len(fullHistory) |->
     [role |-> IF fullHistory[i].role = "assistant" THEN "assistant" ELSE "user",
      content |-> fullHistory[i].message]]

\* generateResponse up to the fetch of callOllama: loadProducts (the cached
\* catalog, or a read of products.json that may fail), the handoff keywords,
\* and the request to the model (chatHistory is not read again)
Respond(h) ==
  /\ h \in DOMAIN handlers
  /\ handlers[h].pc = "respond"
  /\ \E readError \in (IF productsData THEN {FALSE} ELSE Outcomes) :
       LET hr == handlers[h]
           text == messageText(Cur(h))
           head == generateResponseHead(text, ~readError)
           fullHistory == Append(hr.chatHistory, [role |-> "user", message |-> text])
       IN  /\ Fault(readError)
           /\ productsData' = ~readError
           /\ IF head.call
              THEN /\ ollamaCalls' = Append(ollamaCalls,
                        [phone |-> phoneNumberOf(h),
                         messages |-> OllamaMessages(fullHistory)])
                   /\ handlers' = [handlers EXCEPT ![h] =
                        [@ EXCEPT !.pc = "model", !.chatHistory = <<>>]]
              ELSE /\ handlers' = [handlers EXCEPT ![h] =
                        [@ EXCEPT !.response = head.response, !.chatHistory = <<>>,
                                  !.pc = AfterResponse(head.response)]]
                   /\ UNCHANGED ollamaCalls
  /\ UNCHANGED <<orders, req, storeVars, inbound, sent, connVars, http>>

\* the fetch of callOllama settles and generateResponse returns
Model(h) ==
  /\ h \in DOMAIN handlers
  /\ handlers[h].pc = "model"
  /\ \E outcome \in (IF faults < MaxFaults THEN OllamaOutcomes ELSE {"ok"}) :
       LET response == generateResponseTail(messageText(Cur(h)), outcome)
       IN  /\ Fault(outcome # "ok")
           /\ handlers' = [handlers EXCEPT ![h] =
                [@ EXCEPT !.outcome = outcome, !.response = response,
                          !.pc = AfterResponse(response)]]
  /\ UNCHANGED <<orders, req, storeVars, productsData, inbound, ollamaCalls, sent,
                 connVars, http>>

\* markForHumanAgent(phoneNumber): .eq('phone_number', p).select().single()
\* is an error unless exactly one row was updated
Mark(h) ==
  /\ h \in DOMAIN handlers
  /\ handlers[h].pc = "mark"
  /\ \E dbError \in Outcomes :
       LET ids == LeadIdsByPhone(leads, phoneNumberOf(h))
           ts == clock + 1
       IN  /\ Fault(dbError)
           /\ IF dbError
              THEN /\ handlers' = [handlers EXCEPT ![h] = Thrown(@, "storage")]
                   /\ UNCHANGED storeVars
              ELSE /\ leads' = [i \in 1..Len(leads) |->
                                  IF i \in ids THEN MarkLead(leads[i], ts) ELSE leads[i]]
                   /\ clock' = ts
                   /\ handlers' = [handlers EXCEPT ![h] =
                        IF Cardinality(ids) # 1 THEN Thrown(@, "storage")
                        ELSE [@ EXCEPT !.pc = AfterMark(handlers[h].response)]]
                   /\ UNCHANGED chat_history
  /\ UNCHANGED <<orders, req, productsData, inbound, ollamaCalls, sent, connVars, http>>

\* updateLead(lead.id, updates)
Update(h) ==
  /\ h \in DOMAIN handlers
  /\ handlers[h].pc = "update"
  /\ \E dbError \in Outcomes :
       LET hr == handlers[h]
           ts == clock + 1
       IN  /\ Fault(dbError)
           /\ IF dbError
              THEN /\ handlers' = [handlers EXCEPT ![h] = Thrown(@, "storage")]
                   /\ UNCHANGED storeVars
              ELSE /\ leads' = [leads EXCEPT ![hr.lead.id] =
                        UpdateLeadRow(@, hr.response.metadata.extractedInfo, ts)]
                   /\ clock' = ts
                   /\ handlers' = [handlers EXCEPT ![h].pc = "save_asst"]
                   /\ UNCHANGED chat_history
  /\ UNCHANGED <<orders, req, productsData, inbound, ollamaCalls, sent, connVars, http>>

\* saveChatMessage(lead.id, phoneNumber, 'assistant', response.message, response.metadata)
SaveAssistant(h) ==
  /\ h \in DOMAIN handlers
  /\ handlers[h].pc = "save_asst"
  /\ \E dbError \in Outcomes :
       LET hr == handlers[h]
           ts == clock + 1
       IN  /\ Fault(dbError)
           /\ IF dbError \/ ~ChatRowOk(hr.response.message)
              THEN /\ handlers' = [handlers EXCEPT ![h] =
                        Thrown(@, IF dbError THEN "storage" ELSE "notnull")]
                   /\ UNCHANGED storeVars
              ELSE /\ chat_history' = Append(chat_history,
                        ChatRow(hr.lead.id, phoneNumberOf(h), "assistant",
                                hr.response.message, hr.response.metadata, ts))
                   /\ clock' = ts
                   /\ handlers' = [handlers EXCEPT ![h].pc = "send"]
                   /\ UNCHANGED leads
  /\ UNCHANGED <<orders, req, productsData, inbound, ollamaCalls, sent, connVars, http>>

\* (variant) a statement after the delivery of the reply throws inside the
\* try block, so the catch block runs for a message that was answered
Send_thenThrows(h) ==
  /\ h \in DOMAIN handlers
  /\ handlers[h].pc = "send"
  /\ \E rejected \in (IF CanSend THEN Outcomes ELSE {FALSE}) :
       /\ Fault(rejected)
       /\ sent' = IF CanSend /\ ~rejected
                  THEN Append(sent, [to |-> phoneNumberOf(h),
                                     text |-> handlers[h].response.message])
                  ELSE sent
       /\ handlers' = [handlers EXCEPT ![h] = Thrown(@, "send")]
  /\ UNCHANGED <<orders, req, storeVars, productsData, inbound, ollamaCalls, connVars, http>>

\* sendMessage(phoneNumber, response.message)
Send(h) ==
  /\ h \in DOMAIN handlers
  /\ handlers[h].pc = "send"
  /\ \E rejected \in (IF CanSend THEN Outcomes ELSE {FALSE}) :
       /\ Fault(rejected)
       /\ IF CanSend /\ ~rejected
          THEN /\ sent' = Append(sent, [to |-> phoneNumberOf(h),
                                        text |-> handlers[h].response.message])
               /\ handlers' = [handlers EXCEPT ![h] = Finish(@)]
          ELSE /\ handlers' = [handlers EXCEPT ![h] = Thrown(@, "send")]
               /\ UNCHANGED sent
  /\ UNCHANGED <<orders, req, storeVars, productsData, inbound, ollamaCalls, connVars, http>>

\* the catch block: the apology is sent, a failure of that send is logged
Catch(h) ==
  /\ h \in DOMAIN handlers
  /\ handlers[h].pc = "catch"
  /\ \E rejected \in (IF CanSend THEN Outcomes ELSE {FALSE}) :
       LET delivered == CanSend /\ ~rejected
       IN  /\ Fault(rejected)
           /\ sent' = IF delivered
                      THEN Append(sent, [to |-> phoneNumberOf(h), text |-> ApologyReply])
                      ELSE sent
           /\ handlers' = [handlers EXCEPT ![h] = AfterApology(@, delivered)]
  /\ UNCHANGED <<orders, req, storeVars, productsData, inbound, ollamaCalls, connVars, http>>

\* ---------------------------------------------------------------- HTTP API
formatPhoneNumber_anyLength(phoneNumber) ==
  LET IsDigit(c) == c \in DigitChars
      cleaned == SelectSeq(phoneNumber, IsDigit)
      startsWith1 == cleaned # <<>> /\ cleaned[1] = "1"
  IN  (IF ~startsWith1 THEN <<"1">> \o cleaned ELSE cleaned) \o <<WaSuffix>>

\* whatsapp.js formatPhoneNumber
formatPhoneNumber(phoneNumber) ==
  LET IsDigit(c) == c \in DigitChars
      cleaned == SelectSeq(phoneNumber, IsDigit)
      startsWith1 == cleaned # <<>> /\ cleaned[1] = "1"
  IN  (IF ~startsWith1 /\ Len(cleaned) = 10 THEN <<"1">> \o cleaned
       ELSE cleaned) \o <<WaSuffix>>

\* the :phoneNumber parameters the dashboard asks with
jidDigitsA == <<"1", "7">>
ApiPhones == { jidDigitsA, <<"1", "-", "8">> }

\* the last request and its answer
Http(route, phoneNumber, limit, status, data) ==
  [route |-> route, phoneNumber |-> phoneNumber, limit |-> limit,
   status |-> status, data |-> data]
NoHttp == Http("none", <<>>, 0, 0, <<>>)

\* a request handler suspended at an await: the route, the await it is at,
\* the arguments of the request and what its locals hold so far (each a
\* sequence of at most one record)
Req(route, pc, args, acc) == [route |-> route, pc |-> pc, args |-> args, acc |-> acc]
NoReq == Req("none", "none", <<>>, <<>>)

\* GET /api/messages/history/:phoneNumber?limit=
GetHistory(phoneNumber, limit) ==
  /\ \E dbError \in Outcomes :
       /\ Fault(dbError)
       /\ http' = IF dbError
                  THEN Http("history", phoneNumber, limit, 500, <<>>)
                  ELSE Http("history", phoneNumber, limit, 200,
                            getChatHistory(chat_history,
                                           formatPhoneNumber(phoneNumber), limit))
  /\ UNCHANGED <<orders, req, storeVars, productsData, handlers, inbound, ollamaCalls,
                 sent, connVars>>

\* DELETE /api/messages/history/:phoneNumber: clearChatHistory
ClearHistory(phoneNumber) ==
  /\ \E dbError \in Outcomes :
       LET p == formatPhoneNumber(phoneNumber)
           Keep(row) == row.phone_number # p
       IN  /\ Fault(dbError)
           /\ chat_history' = IF dbError THEN chat_history
                              ELSE SelectSeq(chat_history, Keep)
           /\ http' = Http("clear", phoneNumber, 0,
                            IF dbError THEN 500 ELSE 200, <<>>)
  /\ UNCHANGED <<orders, req, leads, clock, productsData, handlers, inbound, ollamaCalls,
                 sent, connVars>>

\* the leads of the two customers, as getOrCreateLead inserted them
StoreLeads == <<NewLead(1, jidA, 1), NewLead(2, jidB, 2)>>

\* saveChatMessage as the gateway calls it for the lead of a phone number
StoreTurn(leadId, role) ==
  /\ leadId \in DOMAIN leads
  /\ clock < Len(StoreLeads) + MaxRows
  /\ \E dbError \in Outcomes :
       /\ Fault(dbError)
       /\ IF dbError THEN UNCHANGED <<chat_history, clock>>
          ELSE /\ chat_history' = Append(chat_history,
                    ChatRow(leadId, leads[leadId].phone_number, role,
                            IF role = "user" THEN txtHi ELSE ModelReply,
                            NULL, clock + 1))
               /\ clock' = clock + 1
  /\ UNCHANGED <<orders, req, leads, productsData, handlers, inbound, ollamaCalls, sent,
                 connVars, http>>

\* ------------------------------------------------------- orders and leads API
\* CHECK (status IN ('new', 'contacted', 'qualified', 'converted', 'lost'))
LeadStatuses == {"new", "contacted", "qualified", "converted", "lost"}
\* CHECK (status IN ('pending', 'confirmed', 'completed', 'cancelled'))
OrderStatuses == {"pending", "confirmed", "completed", "cancelled"}
\* (variant) a list of valid statuses that knows one status more
validStatuses_more == <<"pending", "confirmed", "completed", "cancelled", "shipped">>

\* const validStatuses = ['pending', 'confirmed', 'completed', 'cancelled']
validStatuses == <<"pending", "confirmed", "completed", "cancelled">>

\* a row of orders as createOrder inserts it
OrderRow(id, leadId, phoneNumber, products, ts) ==
  [id |-> id, lead_id |-> leadId, phone_number |-> phoneNumber,
   products |-> products, status |-> "pending", created_at |-> ts]

\* the value of `data` where no order came back
NoOrder == OrderRow(0, 0, NULL, <<>>, 0)

\* what the model keeps of the answer to a PUT: the body of the request and
\* the row of the answer
OrderAnswer(status, order) == <<[status |-> status, order |-> order]>>
LeadAnswer(body, lead) == <<[body |-> body, lead |-> lead]>>

\* lead_id uuid REFERENCES leads(id)
LeadFkOk(ls, leadId) == leadId \in DOMAIN ls

\* the bodies POST /api/orders is asked with: leadId 0 is a missing leadId,
\* the last leadId is the id of no lead; products may be an empty array
OrderLeadIds == 0..(Len(StoreLeads) + 1)
OrderProducts == { <<>>, <<[id |-> 1, quantity |-> 1]>> }

\* the store writes of the API are counted by the clock
ApiMayWrite == clock < Len(StoreLeads) + MaxWrites

\* POST /api/orders up to the first await of createOrder: the validation and
\* the INSERT into orders
PostOrder(leadId, phoneNumber, products) ==
  /\ req = NoReq
  /\ ApiMayWrite
  /\ IF leadId = 0 \/ products = <<>>
     THEN /\ http' = Http("order", phoneNumber, 0, 400, <<>>)
          /\ UNCHANGED <<orders, clock, req, faults>>
     ELSE \E dbError \in Outcomes :
            LET order == OrderRow(Len(orders) + 1, leadId,
                                  formatPhoneNumber(phoneNumber), products,
                                  clock + 1)
            IN  /\ Fault(dbError)
                /\ IF dbError \/ ~LeadFkOk(leads, leadId)
                   THEN /\ http' = Http("order", phoneNumber, 0, 500, <<>>)
                        /\ UNCHANGED <<orders, clock, req>>
                   ELSE /\ orders' = Append(orders, order)
                        /\ clock' = clock + 1
                        /\ req' = Req("createOrder", "updateLead",
                                      <<[leadId |-> leadId, phoneNumber |-> phoneNumber]>>,
                                      <<order>>)
                        /\ http' = http
  /\ UNCHANGED <<leads, chat_history, productsData, handlers, inbound,
                 ollamaCalls, sent, connVars>>

\* (variant) only a lead that is still new is converted
ConvertLead_ifNew(l, ts) ==
  [l EXCEPT !.status = IF @ = "new" THEN "converted" ELSE @, !.updated_at = ts]

\* updateLead(leadId, { status: 'converted' }) on the row of the lead
ConvertLead(l, ts) == [l EXCEPT !.status = "converted", !.updated_at = ts]

\* createOrder from `await updateLead(leadId, { status: 'converted' })` on,
\* and the answer of POST /api/orders
OrderUpdateLead ==
  /\ req.route = "createOrder"
  /\ \E dbError \in Outcomes :
       LET leadId == req.args[1].leadId
           phoneNumber == req.args[1].phoneNumber
       IN  /\ Fault(dbError)
           /\ IF dbError \/ leadId \notin DOMAIN leads
              THEN /\ http' = Http("order", phoneNumber, 0, 500, <<>>)
                   /\ UNCHANGED <<leads, clock>>
              ELSE /\ leads' = [leads EXCEPT ![leadId] = ConvertLead(@, clock + 1)]
                   /\ clock' = clock + 1
                   /\ http' = Http("order", phoneNumber, 0, 201, req.acc)
  /\ req' = NoReq
  /\ UNCHANGED <<orders, chat_history, productsData, handlers, inbound,
                 ollamaCalls, sent, connVars>>

\* the bodies PUT /api/orders/:orderId/status is asked with; "" is a body
\* without status
OrderStatusInputs == {"", "confirmed", "cancelled", "shipped"}
OrderIds == 1..2

\* PUT /api/orders/:orderId/status and updateOrderStatus
PutOrderStatus(orderId, status) ==
  /\ IF status = "" \/ ~(\E i \in DOMAIN validStatuses : validStatuses[i] = status)
     THEN /\ http' = Http("orderStatus", <<>>, orderId, 400, OrderAnswer(status, NoOrder))
          /\ UNCHANGED <<orders, faults>>
     ELSE \E dbError \in Outcomes :
            /\ Fault(dbError)
            /\ IF dbError \/ orderId \notin DOMAIN orders \/ status \notin OrderStatuses
               THEN /\ http' = Http("orderStatus", <<>>, orderId, 500,
                                     OrderAnswer(status, NoOrder))
                    /\ UNCHANGED orders
               ELSE /\ orders' = [orders EXCEPT ![orderId].status = status]
                    /\ http' = Http("orderStatus", <<>>, orderId, 200,
                                     OrderAnswer(status, orders'[orderId]))
  /\ UNCHANGED <<leads, chat_history, clock, productsData, handlers, inbound,
                 ollamaCalls, sent, connVars, req>>

\* const allowedFields = ['customer_name', 'city', 'status', 'needs_human_agent']
allowedFields == <<"customer_name", "city", "status", "needs_human_agent">>

\* a JSON body of PUT /api/leads/:id: the fields it holds and their values
LeadBody(present, status, customer_name, needs_human_agent) ==
  [present |-> present, status |-> status, customer_name |-> customer_name,
   city |-> NULL, needs_human_agent |-> needs_human_agent]

\* the bodies PUT /api/leads/:id is asked with: empty, with a field outside
\* the allow-list only, with a status inside and outside the enum, with a
\* name, and with allowed and other fields together
LeadBodies ==
  { LeadBody({}, "new", NULL, FALSE),
    LeadBody({"role"}, "new", NULL, FALSE),
    LeadBody({"status"}, "lost", NULL, FALSE),
    LeadBody({"status"}, "vip", NULL, FALSE),
    LeadBody({"customer_name"}, "new", <<"B","o">>, FALSE),
    LeadBody({"role", "needs_human_agent"}, "new", NULL, TRUE),
    LeadBody({"status", "customer_name"}, "contacted", <<"A","l">>, FALSE) }

\* for (const field of allowedFields) if (updates[field] !== undefined) ...
filteredUpdates(body) ==
  {allowedFields[i] : i \in {k \in DOMAIN allowedFields : allowedFields[k] \in body.present}}

\* updateLead: .update({ ...updates, updated_at }) of one row
PatchLead(l, body, fields, ts) ==
  [l EXCEPT !.customer_name = IF "customer_name" \in fields THEN body.customer_name ELSE @,
            !.city = IF "city" \in fields THEN body.city ELSE @,
            !.status = IF "status" \in fields THEN body.status ELSE @,
            !.needs_human_agent = IF "needs_human_agent" \in fields
                                  THEN body.needs_human_agent ELSE @,
            !.updated_at = ts]

\* the CHECK constraint of leads.status
LeadCheckOk(l) == l.status \in LeadStatuses

LeadIds == 1..(Len(StoreLeads) + 1)

\* PUT /api/leads/:id and updateLead
PutLead(id, body) ==
  /\ ApiMayWrite
  /\ LET fields == filteredUpdates(body)
     IN  IF fields = {}
         THEN /\ http' = Http("lead", <<>>, id, 400, LeadAnswer(body, NoLead))
              /\ UNCHANGED <<leads, clock, faults>>
         ELSE \E dbError \in Outcomes :
                /\ Fault(dbError)
                /\ IF \/ dbError
                      \/ id \notin DOMAIN leads
                      \/ ~LeadCheckOk(PatchLead(leads[id], body, fields, clock + 1))
                   THEN /\ http' = Http("lead", <<>>, id, 500, LeadAnswer(body, NoLead))
                        /\ UNCHANGED <<leads, clock>>
                   ELSE /\ leads' = [leads EXCEPT ![id] =
                                       PatchLead(@, body, fields, clock + 1)]
                        /\ clock' = clock + 1
                        /\ http' = Http("lead", <<>>, id, 200, LeadAnswer(body, leads'[id]))
  /\ UNCHANGED <<orders, chat_history, productsData, handlers, inbound,
                 ollamaCalls, sent, connVars, req>>

\* the decimal digits of a natural number
DigitChar(d) == <<"0","1","2","3","4","5","6","7","8","9">>[d + 1]
RECURSIVE DecimalDigits(_)
DecimalDigits(n) ==
  IF n < 10 THEN <<DigitChar(n)>>
  ELSE DecimalDigits(n \div 10) \o <<DigitChar((n % 10))>>

\* ((a / b) * 100).toFixed(2): the number nearest to 100a/b with two
\* decimals (the larger one of two equally near), written as a string
toFixed2(a, b) ==
  LET n == (2 * 10000 * a + b) \div (2 * b)
  IN  DecimalDigits(n \div 100) \o <<".">> \o
      <<DigitChar(((n % 100) \div 10)), DigitChar((n % 10))>>

\* a JavaScript value that is a number of hundredths or a string
JsNumber(hundredths) == [type |-> "number", hundredths |-> hundredths, chars |-> <<>>]
JsString(chars) == [type |-> "string", hundredths |-> 0, chars |-> chars]

\* totalLeads > 0 ? ((convertedLeads / totalLeads) * 100).toFixed(2) : 0
conversionRate(totalLeads, convertedLeads) ==
  IF totalLeads > 0 THEN JsString(toFixed2(convertedLeads, totalLeads))
  ELSE JsNumber(0)

\* select('*', { count: 'exact', head: true }), with .eq('status', 'converted')
\* or .eq('needs_human_agent', true) when a column is named
CountLeads(ls, column) ==
  Cardinality({i \in DOMAIN ls :
                 \/ column = "*"
                 \/ column = "status" /\ ls[i].status = "converted"
                 \/ column = "needs_human_agent" /\ ls[i].needs_human_agent})

NoStats == [totalLeads |-> 0, convertedLeads |-> 0, needsHumanAgent |-> 0]

\* GET /api/leads/stats up to the first await of getStatistics
GetStats ==
  /\ req = NoReq
  /\ req' = Req("stats", "totalLeads", <<>>, <<NoStats>>)
  /\ UNCHANGED <<storeVars, orders, productsData, faults, handlers, inbound,
                 ollamaCalls, sent, connVars, http>>

\* getStatistics: one of its four counts comes back; the last one is
\* followed by the return and the answer of the route
StatsCount ==
  /\ req.route = "stats"
  /\ \E dbError \in Outcomes :
       LET acc == req.acc[1]
       IN  /\ Fault(dbError)
           /\ IF dbError
              THEN /\ http' = Http("stats", <<>>, 0, 500, <<>>)
                   /\ req' = NoReq
              ELSE CASE req.pc = "totalLeads" ->
                          /\ req' = Req("stats", "convertedLeads", <<>>,
                               <<[acc EXCEPT !.totalLeads = CountLeads(leads, "*")]>>)
                          /\ http' = http
                     [] req.pc = "convertedLeads" ->
                          /\ req' = Req("stats", "needsAgent", <<>>,
                               <<[acc EXCEPT !.convertedLeads = CountLeads(leads, "status")]>>)
                          /\ http' = http
                     [] req.pc = "needsAgent" ->
                          /\ req' = Req("stats", "totalOrders", <<>>,
                               <<[acc EXCEPT !.needsHumanAgent = CountLeads(leads, "needs_human_agent")]>>)
                          /\ http' = http
                     [] req.pc = "totalOrders" ->
                          /\ req' = NoReq
                          /\ http' = Http("stats", <<>>, 0, 200, <<
                               [totalLeads |-> acc.totalLeads,
                                convertedLeads |-> acc.convertedLeads,
                                needsHumanAgent |-> acc.needsHumanAgent,
                                totalOrders |-> Len(orders),
                                conversionRate |->
                                  conversionRate(acc.totalLeads, acc.convertedLeads)] >>)
  /\ UNCHANGED <<storeVars, orders, productsData, handlers, inbound,
                 ollamaCalls, sent, connVars>>

\* ------------------------------------------------------ connection lifecycle
\* the reasons of a connection close: DisconnectReason.loggedOut, two of the
\* other DisconnectReason codes, and an update without lastDisconnect
CloseReasons == {"loggedOut", "connectionLost", "restartRequired", "undefined"}

\* (variant) every close reconnects
shouldReconnect_always(reason) == TRUE

\* lastDisconnect?.error?.output?.statusCode !== DisconnectReason.loggedOut
shouldReconnect(reason) == reason # "loggedOut"

\* initWhatsApp up to makeWASocket: useMultiFileAuthState,
\* fetchLatestBaileysVersion or makeWASocket may throw, and the catch rethrows
InitOutcome(threw, onFailure) ==
  /\ Fault(threw)
  /\ IF threw
     THEN /\ initState' = onFailure
          /\ UNCHANGED <<sock, socks>>
     ELSE /\ socks' = Append(socks, "connecting")
          /\ sock' = Len(socks) + 1
          /\ initState' = "ok"

\* startServer: await initWhatsApp(); a throw ends in process.exit(1)
StartServer ==
  /\ initState = "idle"
  /\ \E threw \in Outcomes : InitOutcome(threw, "exited")
  /\ UNCHANGED <<orders, req, storeVars, productsData, handlers, inbound, ollamaCalls, sent,
                 isConnected, timers, lastClose, http>>

\* the callback of setTimeout(() => initWhatsApp(), 3000): nothing handles
\* the promise, a throw of initWhatsApp is an unhandled rejection
Reconnect ==
  /\ initState # "exited"
  /\ timers > 0
  /\ Len(socks) < MaxSockets
  /\ timers' = timers - 1
  /\ \E threw \in Outcomes : InitOutcome(threw, "failed")
  /\ UNCHANGED <<orders, req, storeVars, productsData, handlers, inbound, ollamaCalls, sent,
                 isConnected, lastClose, http>>

\* connection.update with connection === 'open', from socket s
ConnectionOpen(s) ==
  /\ initState # "exited"
  /\ s \in DOMAIN socks
  /\ socks[s] = "connecting"
  /\ socks' = [socks EXCEPT ![s] = "open"]
  /\ isConnected' = TRUE
  /\ UNCHANGED <<orders, req, storeVars, productsData, faults, handlers, inbound,
                 ollamaCalls, sent, sock, timers, initState, lastClose, http>>

\* (variant) isConnected is cleared only by a close that does not reconnect
ConnectionClose_keepsFlag(s, reason) ==
  /\ initState # "exited"
  /\ s \in DOMAIN socks
  /\ socks[s] \in {"connecting", "open"}
  /\ socks' = [socks EXCEPT ![s] = "closed"]
  /\ timers' = IF shouldReconnect(reason) THEN timers + 1 ELSE timers
  /\ isConnected' = IF shouldReconnect(reason) THEN isConnected ELSE FALSE
  /\ lastClose' = reason
  /\ UNCHANGED <<orders, req, storeVars, productsData, faults, handlers, inbound,
                 ollamaCalls, sent, sock, initState, http>>

\* connection.update with connection === 'close', from socket s, which is
\* ended by it
ConnectionClose(s, reason) ==
  /\ initState # "exited"
  /\ s \in DOMAIN socks
  /\ socks[s] \in {"connecting", "open"}
  /\ socks' = [socks EXCEPT ![s] = "closed"]
  /\ timers' = IF shouldReconnect(reason) THEN timers + 1 ELSE timers
  /\ isConnected' = FALSE
  /\ lastClose' = reason
  /\ UNCHANGED <<orders, req, storeVars, productsData, faults, handlers, inbound,
                 ollamaCalls, sent, sock, initState, http>>

\* POST /api/messages/send with withTyping: false, i.e. sendMessage
ApiSend(phoneNumber) ==
  /\ initState # "exited"
  /\ Len(sent) < MaxSends
  /\ \E rejected \in (IF CanSend THEN Outcomes ELSE {FALSE}) :
       LET delivered == CanSend /\ ~rejected
           to == formatPhoneNumber(phoneNumber)
       IN  /\ Fault(rejected)
           /\ sent' = IF delivered THEN Append(sent, [to |-> to, text |-> txtHi])
                      ELSE sent
           /\ http' = Http("send", phoneNumber, 0,
                            IF delivered THEN 200 ELSE 500, <<>>)
  /\ UNCHANGED <<orders, req, storeVars, productsData, handlers, inbound, ollamaCalls,
                 connVars>>

\* ---------------------------------------------------------------- broadcast
\* the phoneNumbers arrays POST /api/messages/broadcast is asked with
RecipientLists == UNION {[1..k -> ApiPhones] : k \in 0..MaxRecipients}

\* phoneNumbers.map(formatPhoneNumber)
formattedNumbers(phoneNumbers) ==
  [i \in DOMAIN phoneNumbers |-> formatPhoneNumber(phoneNumbers[i])]

\* the locals of broadcastMessage: the recipients still to come and results
Results(rest, success, failed) == [rest |-> rest, success |-> success, failed |-> failed]

\* results.success.push(phoneNumber)
PushSuccess(results) ==
  [results EXCEPT !.success = Append(@, Head(results.rest)), !.rest = Tail(@)]

\* (variant) a failed send is counted as a success as well
PushFailed_both(results, error) ==
  [results EXCEPT !.success = Append(@, Head(results.rest)),
                  !.failed = Append(@, [phoneNumber |-> Head(results.rest),
                                        error |-> error]),
                  !.rest = Tail(@)]

\* results.failed.push({ phoneNumber, error: error.message })
PushFailed(results, error) ==
  [results EXCEPT !.failed = Append(@, [phoneNumber |-> Head(results.rest),
                                        error |-> error]),
                  !.rest = Tail(@)]

\* the recipients that fail one after the other while the guard of
\* sendMessage throws: no await of the loop yields to the event loop then
RECURSIVE FailAll(_)
FailAll(results) ==
  IF results.rest = <<>> THEN results
  ELSE FailAll(PushFailed(results, "not connected"))

\* broadcastMessage from the head of its for loop to the next await that
\* suspends it: the recipients for which the guard of sendMessage throws
\* fail one after the other; otherwise sock.sendMessage is called for the
\* next recipient and the loop waits for it ("sendMessage"); with no
\* recipient left the loop is over ("return")
LoopHead(r, results) ==
  IF results.rest = <<>> THEN [r EXCEPT !.pc = "return", !.acc = <<results>>]
  ELSE IF CanSend THEN [r EXCEPT !.pc = "sendMessage", !.acc = <<results>>]
  ELSE [r EXCEPT !.pc = "return", !.acc = <<FailAll(results)>>]

\* POST /api/messages/broadcast up to the first await of broadcastMessage
PostBroadcast(phoneNumbers) ==
  /\ req = NoReq
  /\ Len(sent) + Len(phoneNumbers) <= MaxRecipients
  /\ IF phoneNumbers = <<>>
     THEN /\ http' = Http("broadcast", <<>>, 0, 400, <<>>)
          /\ req' = req
     ELSE /\ req' = LoopHead(Req("broadcast", "head",
                                 <<[phoneNumbers |-> formattedNumbers(phoneNumbers)]>>,
                                 <<>>),
                             Results(formattedNumbers(phoneNumbers), <<>>, <<>>))
          /\ http' = http
  /\ UNCHANGED <<storeVars, orders, productsData, faults, handlers, inbound,
                 ollamaCalls, sent, connVars>>

\* broadcastMessage: sock.sendMessage settles. Resolved, the recipient is a
\* success and the loop waits for the 2000 ms delay; rejected (which it may
\* also be because the session closed meanwhile), the recipient is a failure
\* and the catch block falls through to the head of the loop at once
BroadcastSend ==
  /\ req.route = "broadcast"
  /\ req.pc = "sendMessage"
  /\ LET results == req.acc[1]
     IN  \E rejected \in (IF CanSend THEN Outcomes ELSE {TRUE, FALSE}) :
           /\ Fault(rejected /\ CanSend)
           /\ IF rejected
              THEN /\ req' = LoopHead(req, PushFailed(results, "rejected"))
                   /\ sent' = sent
              ELSE /\ req' = [req EXCEPT !.pc = "setTimeout",
                                         !.acc = <<PushSuccess(results)>>]
                   /\ sent' = Append(sent, [to |-> Head(results.rest),
                                            text |-> txtHi])
  /\ UNCHANGED <<storeVars, orders, productsData, handlers, inbound,
                 ollamaCalls, connVars, http>>

\* broadcastMessage: the 2000 ms timer fires, the loop goes on
BroadcastDelay ==
  /\ req.route = "broadcast"
  /\ req.pc = "setTimeout"
  /\ req' = LoopHead(req, req.acc[1])
  /\ UNCHANGED <<storeVars, orders, productsData, faults, handlers, inbound,
                 ollamaCalls, sent, connVars, http>>

\* broadcastMessage returns results, the route answers with them
BroadcastReturn ==
  /\ req.route = "broadcast"
  /\ req.pc = "return"
  /\ http' = Http("broadcast", <<>>, 0, 200,
                  <<[phoneNumbers |-> req.args[1].phoneNumbers,
                     success |-> req.acc[1].success,
                     failed |-> req.acc[1].failed]>>)
  /\ req' = NoReq
  /\ UNCHANGED <<storeVars, orders, productsData, faults, handlers, inbound,
                 ollamaCalls, sent, connVars>>

\* ----------------------------------------------------------- specification
\* the gateway with a session that is open, or one that is still connecting
Init ==
  /\ leads = <<>>
  /\ chat_history = <<>>
  /\ clock = 0
  /\ productsData = FALSE
  /\ faults = 0
  /\ handlers = <<>>
  /\ inbound = 0
  /\ ollamaCalls = <<>>
  /\ sent = <<>>
  /\ sock = 1
  /\ \E open \in BOOLEAN :
       /\ isConnected = open
       /\ socks = << IF open THEN "open" ELSE "connecting" >>
  /\ timers = 0
  /\ initState = "ok"
  /\ lastClose = "none"
  /\ http = NoHttp
  /\ orders = <<>>
  /\ req = NoReq

Next ==
  \/ /\ Len(handlers) < MaxEvents
     /\ \E type \in {"notify", "append"} :
          \E batch \in Batches(MaxInbound - inbound) : Upsert(type, batch)
  \/ \E h \in 1..MaxEvents : Start(h)
  \/ \E h \in 1..MaxEvents : LeadWrite(h)
  \/ \E h \in 1..MaxEvents : SaveUser(h)
  \/ \E h \in 1..MaxEvents : SendHuman(h)
  \/ \E h \in 1..MaxEvents : History(h)
  \/ \E h \in 1..MaxEvents : Respond(h)
  \/ \E h \in 1..MaxEvents : Model(h)
  \/ \E h \in 1..MaxEvents : Mark(h)
  \/ \E h \in 1..MaxEvents : Update(h)
  \/ \E h \in 1..MaxEvents : SaveAssistant(h)
  \/ \E h \in 1..MaxEvents : Send(h)
  \/ \E h \in 1..MaxEvents : Catch(h)

Spec == Init /\ [][Next]_vars

\* the store and its two history endpoints, once both customers are leads
InitStore ==
  /\ leads = StoreLeads
  /\ chat_history = <<>>
  /\ clock = Len(StoreLeads)
  /\ productsData = FALSE
  /\ faults = 0
  /\ handlers = <<>>
  /\ inbound = 0
  /\ ollamaCalls = <<>>
  /\ sent = <<>>
  /\ sock = 1
  /\ isConnected = TRUE
  /\ socks = <<"open">>
  /\ timers = 0
  /\ initState = "ok"
  /\ lastClose = "none"
  /\ http = NoHttp
  /\ orders = <<>>
  /\ req = NoReq

NextStore ==
  \/ \E leadId \in DOMAIN StoreLeads : \E role \in {"user", "assistant"} :
       StoreTurn(leadId, role)
  \/ \E phoneNumber \in ApiPhones : \E limit \in 1..MaxLimit :
       GetHistory(phoneNumber, limit)
  \/ \E phoneNumber \in ApiPhones : ClearHistory(phoneNumber)

SpecStore == InitStore /\ [][NextStore]_vars

\* the session from the start of the server on, and the send endpoint
InitConn ==
  /\ leads = <<>>
  /\ chat_history = <<>>
  /\ clock = 0
  /\ productsData = FALSE
  /\ faults = 0
  /\ handlers = <<>>
  /\ inbound = 0
  /\ ollamaCalls = <<>>
  /\ sent = <<>>
  /\ sock = 0
  /\ isConnected = FALSE
  /\ socks = <<>>
  /\ timers = 0
  /\ initState = "idle"
  /\ lastClose = "none"
  /\ http = NoHttp
  /\ orders = <<>>
  /\ req = NoReq

NextConn ==
  \/ StartServer
  \/ Reconnect
  \/ \E s \in 1..MaxSockets : ConnectionOpen(s)
  \/ \E s \in 1..MaxSockets : \E reason \in CloseReasons : ConnectionClose(s, reason)
  \/ \E phoneNumber \in ApiPhones : ApiSend(phoneNumber)

SpecConn == InitConn /\ [][NextConn]_vars

\* the orders and leads endpoints over the leads of two customers
InitApi ==
  /\ leads = StoreLeads
  /\ chat_history = <<>>
  /\ clock = Len(StoreLeads)
  /\ productsData = FALSE
  /\ faults = 0
  /\ handlers = <<>>
  /\ inbound = 0
  /\ ollamaCalls = <<>>
  /\ sent = <<>>
  /\ sock = 1
  /\ isConnected = TRUE
  /\ socks = <<"open">>
  /\ timers = 0
  /\ initState = "ok"
  /\ lastClose = "none"
  /\ http = NoHttp
  /\ orders = <<>>
  /\ req = NoReq

NextApi ==
  \/ \E leadId \in OrderLeadIds : \E phoneNumber \in ApiPhones :
       \E products \in OrderProducts : PostOrder(leadId, phoneNumber, products)
  \/ OrderUpdateLead
  \/ \E orderId \in OrderIds : \E status \in OrderStatusInputs :
       PutOrderStatus(orderId, status)
  \/ \E id \in LeadIds : \E body \in LeadBodies : PutLead(id, body)

SpecApi == InitApi /\ [][NextApi]_vars

\* the statistics endpoint while leads are updated, over the leads of two
\* customers or over an empty store
jidC == <<"1", "9", WaSuffix>>
StatsPhones == <<jidA, jidB, jidC>>

\* the leads of three customers after the orders of those in `converted`:
\* lead i was created at time i and converted at time Len(StatsPhones) + i
StatsLeads(converted) ==
  [i \in DOMAIN StatsPhones |->
     IF i \in converted
     THEN ConvertLead(NewLead(i, StatsPhones[i], i), Len(StatsPhones) + i)
     ELSE NewLead(i, StatsPhones[i], i)]

InitStats ==
  /\ \/ /\ leads \in {<<>>, StoreLeads}
        /\ clock = Len(StoreLeads)
     \/ /\ leads \in {StatsLeads(c) : c \in SUBSET (DOMAIN StatsPhones)}
        /\ clock = 2 * Len(StatsPhones)
  /\ chat_history = <<>>
  /\ productsData = FALSE
  /\ faults = 0
  /\ handlers = <<>>
  /\ inbound = 0
  /\ ollamaCalls = <<>>
  /\ sent = <<>>
  /\ sock = 1
  /\ isConnected = TRUE
  /\ socks = <<"open">>
  /\ timers = 0
  /\ initState = "ok"
  /\ lastClose = "none"
  /\ http = NoHttp
  /\ orders = <<>>
  /\ req = NoReq

NextStats ==
  \/ GetStats
  \/ StatsCount
  \/ \E id \in LeadIds : \E body \in LeadBodies : PutLead(id, body)

SpecStats == InitStats /\ [][NextStats]_vars

\* the gateway handling the messages of one event of one customer while the
\* statistics endpoint is read and an order is posted for the customer
MaxLiveEvents == 1
LiveMsgs ==
  { Msg(jidA, FALSE, txtHi, NULL),
    Msg(jidA, FALSE, NULL, txtAgent),
    Msg(jidA, FALSE, txtName, NULL) }
LiveBatches == UNION {[1..k -> LiveMsgs] : k \in 1..MaxInbound}

InitLive ==
  /\ Init
  /\ isConnected

NextLive ==
  \/ /\ Len(handlers) < MaxLiveEvents
     /\ \E batch \in LiveBatches : Upsert("notify", batch)
  \/ \E h \in 1..MaxLiveEvents : Start(h)
  \/ \E h \in 1..MaxLiveEvents : LeadWrite(h)
  \/ \E h \in 1..MaxLiveEvents : SaveUser(h)
  \/ \E h \in 1..MaxLiveEvents : SendHuman(h)
  \/ \E h \in 1..MaxLiveEvents : History(h)
  \/ \E h \in 1..MaxLiveEvents : Respond(h)
  \/ \E h \in 1..MaxLiveEvents : Model(h)
  \/ \E h \in 1..MaxLiveEvents : Mark(h)
  \/ \E h \in 1..MaxLiveEvents : Update(h)
  \/ \E h \in 1..MaxLiveEvents : SaveAssistant(h)
  \/ \E h \in 1..MaxLiveEvents : Send(h)
  \/ \E h \in 1..MaxLiveEvents : Catch(h)
  \/ \E products \in OrderProducts : PostOrder(1, jidDigitsA, products)
  \/ OrderUpdateLead
  \/ GetStats
  \/ StatsCount

SpecLive == InitLive /\ [][NextLive]_vars

\* a broadcast while the session comes and goes
InitBroadcast == Init

NextBroadcast ==
  \/ \E phoneNumbers \in RecipientLists : PostBroadcast(phoneNumbers)
  \/ BroadcastSend
  \/ BroadcastDelay
  \/ BroadcastReturn
  \/ Reconnect
  \/ \E s \in 1..MaxSockets : ConnectionOpen(s)
  \/ \E s \in 1..MaxSockets : \E reason \in CloseReasons : ConnectionClose(s, reason)

SpecBroadcast == InitBroadcast /\ [][NextBroadcast]_vars

\* ------------------------------------------------------- pure functions
\* a catalog entry of products.json: keywords is <<>> when the entry has no
\* keywords and <<list>> when it has a list; category is NULL when absent
Product(name, category, keywords) ==
  [name |-> name, category |-> category, keywords |-> keywords]

CatalogEntries ==
  { Product(<<"T","e","a">>, NULL, <<>>),
    Product(<<"C","u","p">>, <<"T","e","a">>, << <<>> >>),
    Product(<<"M","u","g">>, NULL, << << <<"C","U","P">>, <<"j","a">> >> >>),
    Product(<<"P","o","t">>, <<>>, <<>>),
    Product(<<"J","a","r">>, <<"p","o","t">>, << << <<"m","u","g">> >> >>) }

Catalogs == UNION { [1..n -> CatalogEntries] : n \in 0..MaxCatalog }

CustomerMessages ==
  { <<>>, <<"t","e","a">>, <<"a"," ","C","U","P">>, <<"J","a","r"," ","P","o","t">>,
    <<"m","u","g"," ","o","f"," ","T","E","A">> }

\* the loop of findRelevantProducts: relevantProducts after the scan
RECURSIVE relevantProducts(_, _)
relevantProducts(lowerMessage, products) ==
  IF products = <<>> THEN <<>>
  ELSE LET product == Head(products)
           rest == relevantProducts(lowerMessage, Tail(products))
           keywords == IF product.keywords = <<>> THEN <<>> ELSE product.keywords[1]
       IN  IF /\ product.keywords # <<>>
              /\ \E n \in DOMAIN keywords :
                   includes(lowerMessage, toLowerCase(keywords[n]))
           THEN <<product>> \o rest
           ELSE IF /\ Truthy(product.category)
                   /\ includes(lowerMessage, toLowerCase(product.category))
           THEN <<product>> \o rest
           ELSE IF includes(lowerMessage, toLowerCase(product.name))
           THEN <<product>> \o rest
           ELSE rest

\* Array.prototype.slice(start, end) for 0 <= start <= end
slice(array, start, end) ==
  SubSeq(array, start + 1, IF end < Len(array) THEN end ELSE Len(array))

findRelevantProducts_uncapped(message, products) ==
  relevantProducts(toLowerCase(message), products)

\* ai.js findRelevantProducts
findRelevantProducts(message, products) ==
  slice(relevantProducts(toLowerCase(message), products), 0, 3)

\* the strings formatPhoneNumber is called with: a leading 1, another digit
\* and a separator, in every arrangement
PhoneChars == {"1", "5", "-"}
PhoneInputs ==
  { n \in UNION { [1..len -> PhoneChars] : len \in 0..MaxPhoneLen } :
      Cardinality({i \in DOMAIN n : n[i] = "-"}) <= MaxSeparators }

\* a call of findRelevantProducts with its arguments / of formatPhoneNumber
RelevantCall(message, products) ==
  Req("findRelevantProducts", "call", <<[message |-> message, products |-> products]>>, <<>>)
FormatCall(phoneNumber) ==
  Req("formatPhoneNumber", "call", <<phoneNumber>>, <<>>)

CallFindRelevantProducts ==
  /\ req.route = "findRelevantProducts"
  /\ req.pc = "call"
  /\ http' = Http("findRelevantProducts", <<>>, 0, 0,
                  findRelevantProducts(req.args[1].message, req.args[1].products))
  /\ req' = [req EXCEPT !.pc = "returned"]
  /\ UNCHANGED <<storeVars, orders, productsData, faults, handlers, inbound,
                 ollamaCalls, sent, connVars>>

CallFormatPhoneNumber ==
  /\ req.route = "formatPhoneNumber"
  /\ req.pc = "call"
  /\ http' = Http("formatPhoneNumber", req.args[1], 0, 0,
                  formatPhoneNumber(req.args[1]))
  /\ req' = [req EXCEPT !.pc = "returned"]
  /\ UNCHANGED <<storeVars, orders, productsData, faults, handlers, inbound,
                 ollamaCalls, sent, connVars>>

\* what every call of a pure function leaves as it is
InitIdle ==
  /\ leads = <<>>
  /\ chat_history = <<>>
  /\ clock = 0
  /\ productsData = TRUE
  /\ faults = 0
  /\ handlers = <<>>
  /\ inbound = 0
  /\ ollamaCalls = <<>>
  /\ sent = <<>>
  /\ sock = 1
  /\ isConnected = TRUE
  /\ socks = <<"open">>
  /\ timers = 0
  /\ initState = "ok"
  /\ lastClose = "none"
  /\ http = NoHttp
  /\ orders = <<>>

\* findRelevantProducts over every message and catalog
InitProducts ==
  /\ InitIdle
  /\ req \in {RelevantCall(m, ps) : m \in CustomerMessages, ps \in Catalogs}

NextProducts == CallFindRelevantProducts

SpecProducts == InitProducts /\ [][NextProducts]_vars

\* formatPhoneNumber over every input string
InitPhone ==
  /\ InitIdle
  /\ req \in {FormatCall(n) : n \in PhoneInputs}

NextPhone == CallFormatPhoneNumber

SpecPhone == InitPhone /\ [][NextPhone]_vars

\* ------------------------------------------------------------------ claims
RunningPcs == HandlerPcs \ {"done"}
Running(h) == handlers[h].pc \in RunningPcs

\* C1: there is at most one Lead per phone number in every reachable state;
\* when an insert of getOrCreateLead comes after another handler has created
\* the Lead of that phone (both read 'absent'), the insert fails, the error
\* reaches the caller (the handler is in its catch block) and leads is
\* unchanged.
OneLeadPerPhone ==
  \A i, j \in 1..Len(leads) :
    leads[i].phone_number = leads[j].phone_number => i = j

LostRaceStep(h) ==
  ( /\ handlers[h].pc = "lead_write"
    /\ handlers[h].existing.id = 0
    /\ LeadIdsByPhone(leads, phoneNumberOf(h)) # {}
    /\ handlers'[h] # handlers[h] )
  => /\ handlers'[h].pc = "catch"
     /\ handlers'[h].error \in {"unique", "storage"}
     /\ leads' = leads

C1_OneLeadPerPhone ==
  /\ []OneLeadPerPhone
  /\ [][\A h \in 1..Len(handlers) : LostRaceStep(h)]_vars

\* a handler lost the race: its insert was refused by the constraint and
\* the Lead of its phone is the one row the other handler made
C1_Witness ==
  \E h \in 1..Len(handlers) :
    /\ handlers[h].pc = "catch"
    /\ handlers[h].error = "unique"
    /\ Cardinality(LeadIdsByPhone(leads, phoneNumberOf(h))) = 1

\* C2: a getOrCreateLead that returns for a phone without a Lead has added
\* exactly one row, with that phone and status "new", and returns it; one
\* that returns for a phone with a Lead returns the row of that Lead (same
\* id) and has changed nothing but last_message_at and updated_at of that
\* row.
KeptColumns ==
  {"id", "phone_number", "customer_name", "city", "status",
   "needs_human_agent", "created_at"}

GetOrCreateStep(h) ==
  LET p == phoneNumberOf(h)
      ids == LeadIdsByPhone(leads, p)
      returned == handlers'[h].lead
  IN  (handlers[h].pc = "lead_write" /\ handlers'[h].pc = "save_user")
      => IF ids = {}
         THEN /\ Len(leads') = Len(leads) + 1
              /\ SubSeq(leads', 1, Len(leads)) = leads
              /\ returned = leads'[Len(leads')]
              /\ returned.phone_number = p
              /\ returned.status = "new"
         ELSE /\ Len(leads') = Len(leads)
              /\ returned.id \in ids
              /\ returned = leads'[returned.id]
              /\ \A i \in 1..Len(leads) :
                   \A c \in KeptColumns : leads'[i][c] = leads[i][c]
              /\ \A i \in 1..Len(leads) : i # returned.id => leads'[i] = leads[i]

C2_GetOrCreateLead == [][\A h \in 1..Len(handlers) : GetOrCreateStep(h)]_vars

\* getOrCreateLead has just returned a Lead that existed before, whose name
\* is known and whose activity timestamp it refreshed
C2_Witness ==
  \E h \in 1..Len(handlers) :
    /\ handlers[h].pc = "save_user"
    /\ handlers[h].lead.customer_name # NULL
    /\ handlers[h].lead.last_message_at > handlers[h].lead.created_at

\* C3: for a message that contains a handoff keyword, generateResponse makes
\* no call to the model and returns metadata.agentRequested = true.
C3_HandoffAlwaysFlagged ==
  \A h \in 1..Len(handlers) :
    (Running(h) /\ isAgentRequested(messageText(Cur(h))))
    => /\ handlers[h].pc # "model"
       /\ handlers[h].pc \in {"mark", "update", "save_asst", "send"}
            => handlers[h].response.metadata.agentRequested

\* C4: a handler whose Lead came back from getOrCreateLead flagged for a
\* human agent only stores the user turn and sends the fixed reply: it is
\* never at the history fetch, the Responder, the model call, a Lead update
\* or the assistant turn; when it is about to send, the user turn is stored;
\* and its send step either delivers the fixed reply and ends the handling
\* of the message, or throws, leaving leads, chat_history and the model
\* calls as they are.
FlaggedStopsShort ==
  \A h \in 1..Len(handlers) :
    /\ handlers[h].lead.needs_human_agent
         => handlers[h].pc \in {"save_user", "send_human"}
    /\ handlers[h].pc = "send_human"
         => \E i \in 1..Len(chat_history) :
              /\ chat_history[i].role = "user"
              /\ chat_history[i].lead_id = handlers[h].lead.id
              /\ chat_history[i].phone_number = phoneNumberOf(h)
              /\ chat_history[i].message = messageText(Cur(h))

FlaggedSendStep(h) ==
  ( /\ handlers[h].lead.needs_human_agent
    /\ handlers[h].pc = "send_human"
    /\ handlers'[h] # handlers[h] )
  => /\ UNCHANGED <<leads, chat_history, ollamaCalls>>
     /\ \/ /\ sent' = Append(sent, [to |-> phoneNumberOf(h), text |-> HumanSoonReply])
           /\ handlers'[h].handled = handlers[h].handled + 1
           /\ handlers'[h].pc \in {"start", "done"}
        \/ /\ sent' = sent
           /\ handlers'[h].pc = "catch"

C4_FlaggedLeadShortCircuit ==
  /\ []FlaggedStopsShort
  /\ [][\A h \in 1..Len(handlers) : FlaggedSendStep(h)]_vars

\* the fixed reply went out for a message of a flagged Lead: one user turn
\* more than assistant turns is stored for that phone
C4_Witness ==
  /\ \E i \in 1..Len(sent) : sent[i].text = HumanSoonReply
  /\ \E i \in 1..Len(leads) : leads[i].needs_human_agent
  /\ \A h \in 1..Len(handlers) : handlers[h].pc = "done"

\* C5: whenever the call to the model failed (the fetch rejected, the status
\* was not OK, or the body was malformed), generateResponse returns the
\* fixed apologetic reply with metadata.error = true.
C5_ModelFailureGivesApology ==
  \A h \in 1..Len(handlers) :
    handlers[h].outcome \notin {"none", "ok"}
    => /\ handlers[h].response.message = FallbackReply
       /\ handlers[h].response.metadata.error

\* C6: no failure ends a listener early: a listener that is not running any
\* more has handled every message of its event, and a handler in its catch
\* block attempts the apology and then, delivered or not, has finished the
\* message (the next one of the batch starts), changing nothing in the store.
NeverAbandoned ==
  \A h \in 1..Len(handlers) :
    /\ handlers[h].handled + Len(handlers[h].rest) = handlers[h].size
    /\ Running(h) => handlers[h].rest # <<>>
    /\ ~Running(h) => handlers[h].handled = handlers[h].size

CatchStep(h) ==
  (handlers[h].pc = "catch" /\ handlers'[h] # handlers[h])
  => /\ handlers'[h].handled = handlers[h].handled + 1
     /\ handlers'[h].pc = IF Len(handlers[h].rest) > 1 THEN "start" ELSE "done"
     /\ \/ sent' = sent
        \/ sent' = Append(sent, [to |-> phoneNumberOf(h), text |-> ApologyReply])
     /\ UNCHANGED <<leads, chat_history, ollamaCalls>>

C6_FailuresAreContained ==
  /\ []NeverAbandoned
  /\ [][\A h \in 1..Len(handlers) : CatchStep(h)]_vars

\* the first message of a batch failed and its apology could not be sent
\* either; the listener is handling the second message
C6_Witness ==
  /\ Len(handlers) = 1
  /\ handlers[1].handled = 1
  /\ handlers[1].pc = "lead_write"
  /\ faults >= 1
  /\ sent = <<>>
  /\ chat_history = <<>>

\* C7: an event from a group chat, from status@broadcast, sent by the
\* account itself or without plain text never gets past the entry of
\* handleIncomingMessage, and the step that drops it changes no Lead, no
\* ChatTurn, makes no model call and sends nothing.
Dropped(m) ==
  \/ m.key.remoteJid = jidGroup
  \/ m.key.remoteJid = jidStatus
  \/ m.key.fromMe
  \/ (m.message.conversation \in {NULL, <<>>}
      /\ m.message.extendedText \in {NULL, <<>>})

DroppedStaysAtEntry ==
  \A h \in 1..Len(handlers) :
    (Running(h) /\ Dropped(Cur(h))) => handlers[h].pc = "start"

DropStep(h) ==
  ( /\ handlers[h].pc = "start"
    /\ Dropped(Cur(h))
    /\ handlers'[h] # handlers[h] )
  => /\ handlers'[h].handled = handlers[h].handled + 1
     /\ UNCHANGED <<leads, chat_history, clock, ollamaCalls, sent, productsData>>

C7_DroppedEventsChangeNothing ==
  /\ []DroppedStaysAtEntry
  /\ [][\A h \in 1..Len(handlers) : DropStep(h)]_vars

\* a listener has gone through its whole event, nothing failed, and there
\* is no Lead, no ChatTurn, no model call and nothing sent
C7_Witness ==
  /\ Len(handlers) = 1
  /\ handlers[1].pc = "done"
  /\ handlers[1].size = 2
  /\ faults = 0
  /\ leads = <<>> /\ chat_history = <<>> /\ ollamaCalls = <<>> /\ sent = <<>>

\* C8: once a close with reason loggedOut has been handled, the gateway is
\* not connected, no reconnect is pending and no socket is alive, so that
\* nothing can connect it again.
C8_LoggedOutIsTerminal ==
  lastClose = "loggedOut"
  => /\ ~isConnected
     /\ timers = 0
     /\ \A s \in 1..Len(socks) : socks[s] = "closed"

\* the session was logged out after it had reconnected once
C8_Witness ==
  /\ lastClose = "loggedOut"
  /\ Len(socks) = 2

\* C9: after a close whose reason is not loggedOut, and until the session is
\* connected, the retry loop is alive: a reconnect is pending or a socket is
\* connecting.
C9_RetryKeepsGoing ==
  (lastClose \notin {"none", "loggedOut"} /\ ~isConnected)
  => \/ timers > 0
     \/ \E s \in 1..Len(socks) : socks[s] = "connecting"

\* C10: GET history answers with the min(limit, n) most recent of the n
\* stored turns of the phone, in ascending order of creation.
MostRecent(ch, phoneNumber, limit) ==
  LET all == SortAsc({ch[i] : i \in {k \in 1..Len(ch) : ch[k].phone_number = phoneNumber}})
      n == Len(all)
      m == IF limit < n THEN limit ELSE n
  IN  SubSeq(all, n - m + 1, n)

C10_MostRecentWindow ==
  [][(http' # http /\ http'.route = "history" /\ http'.status = 200)
     => http'.data = MostRecent(chat_history,
                                formatPhoneNumber(http'.phoneNumber),
                                http'.limit)]_vars

\* C11: whenever createOrder returns an Order (POST /api/orders answers
\* 201), the Lead the Order names has status "converted" in the state it
\* returns in, whatever its status was before.
C11_CreateOrderConverts ==
  [][(req.route = "createOrder" /\ http'.route = "order" /\ http'.status = 201)
     => /\ http'.data = req.acc
        /\ leads'[http'.data[1].lead_id].status = "converted"]_vars

\* createOrder has returned for a lead whose status a PUT had set to
\* "contacted": the PUT, the INSERT and the UPDATE are the three writes
C11_Witness ==
  /\ http.route = "order" /\ http.status = 201
  /\ Len(orders) = 1
  /\ LET l == leads[http.data[1].lead_id]
     IN  /\ l.status = "converted"
         /\ l.customer_name = <<"A","l">>
         /\ l.updated_at = Len(StoreLeads) + 3

\* C12: PUT /api/orders/:orderId/status without a status, or with one
\* outside {pending, confirmed, completed, cancelled}, answers 400 and leaves
\* orders, leads, chat_history and the clock as they are; with a status of
\* the set it answers 200 or 500: on 200 the stored order has exactly that
\* status and nothing else in orders has changed, on 500 nothing has.
OrderStatusStep ==
  (http' # http /\ http'.route = "orderStatus")
  => LET status == http'.data[1].status
         orderId == http'.limit
     IN  IF status \notin {"pending", "confirmed", "completed", "cancelled"}
         THEN /\ http'.status = 400
              /\ UNCHANGED <<orders, leads, chat_history, clock, faults>>
         ELSE /\ UNCHANGED <<leads, chat_history, clock>>
              /\ \/ /\ http'.status = 200
                    /\ orderId \in DOMAIN orders
                    /\ orders' = [orders EXCEPT ![orderId].status = status]
                    /\ http'.data[1].order = orders'[orderId]
                 \/ /\ http'.status = 500
                    /\ orders' = orders

C12_OrderStatusValidated == [][OrderStatusStep]_vars

\* a PUT has moved a stored order from pending to cancelled
C12_Witness ==
  /\ http.route = "orderStatus" /\ http.status = 200
  /\ http.data[1].status = "cancelled"
  /\ orders[http.limit].status = "cancelled"

\* C13 (as the code has it): in the result of a broadcast every entry of
\* the recipient list is recorded exactly once: success and failed together
\* hold each number as many times as the list does; and when no number occurs
\* twice in the list, each recipient is in exactly one of success and failed.
Occurrences(seq, x) == Cardinality({i \in DOMAIN seq : seq[i] = x})
FailedNumbers(failed) == [i \in DOMAIN failed |-> failed[i].phoneNumber]
Members(seq) == {seq[i] : i \in DOMAIN seq}
NoRepeats(seq) == \A i, j \in DOMAIN seq : seq[i] = seq[j] => i = j

C13_EveryEntryRecordedOnce ==
  (http.route = "broadcast" /\ http.status = 200)
  => LET r == http.data[1]
         failed == FailedNumbers(r.failed)
     IN  /\ \A x \in Members(r.phoneNumbers) \cup Members(r.success) \cup Members(failed) :
              Occurrences(r.success, x) + Occurrences(failed, x)
                = Occurrences(r.phoneNumbers, x)
         /\ NoRepeats(r.phoneNumbers)
              => \A x \in Members(r.phoneNumbers) :
                   (x \in Members(r.success)) # (x \in Members(failed))

\* a broadcast to two different numbers during which the session closed:
\* one send went through, the other failed
C13_Witness ==
  /\ http.route = "broadcast" /\ http.status = 200
  /\ lastClose # "none"
  /\ Len(http.data[1].phoneNumbers) = 2
  /\ NoRepeats(http.data[1].phoneNumbers)
  /\ Len(http.data[1].success) = 1
  /\ Len(http.data[1].failed) = 1

\* C13 (as stated): in the result of a broadcast each recipient of the list
\* is in exactly one of success and failed, for every recipient list.
C13_ExactlyOneOfTwo ==
  (http.route = "broadcast" /\ http.status = 200)
  => LET r == http.data[1]
     IN  \A x \in Members(r.phoneNumbers) :
           (x \in Members(r.success)) # (x \in Members(FailedNumbers(r.failed)))

\* C14 (as stated): whenever GET /api/leads/stats answers, conversionRate is
\* the number 0 for no leads and otherwise the number 100 * C / T rounded to
\* two decimals, T and C being the total and converted counts it reports
C14_RateIsRoundedNumber ==
  (http.route = "stats" /\ http.status = 200) =>
     LET stats == http.data[1]
         T == stats.totalLeads
         C == stats.convertedLeads
     IN  stats.conversionRate =
           IF T = 0 THEN JsNumber(0)
           ELSE JsNumber((2 * 10000 * C + T) \div (2 * T))

\* what getStatistics returns instead: the number 0 for no leads, otherwise
\* a string of digits with exactly two decimals whose value is the rounded rate
C14_RateAsReturned ==
  (http.route = "stats" /\ http.status = 200) =>
     LET stats == http.data[1]
         T == stats.totalLeads
         C == stats.convertedLeads
         n == (2 * 10000 * C + T) \div (2 * T)
         r == stats.conversionRate
     IN  IF T = 0 THEN r = JsNumber(0)
         ELSE /\ r.type = "string"
              /\ Len(r.chars) >= 4
              /\ r.chars[Len(r.chars) - 2] = "."
              /\ r.chars = DecimalDigits(n \div 100) \o <<".">> \o
                             SubSeq(DecimalDigits(100 + (n % 100)), 2, 3)

C14_Witness ==
  /\ http.route = "stats" /\ http.status = 200
  /\ http.data[1].totalLeads = 3
  /\ http.data[1].convertedLeads = 2
  /\ http.data[1].conversionRate = JsString(<<"6", "6", ".", "6", "7">>)

\* C15: findRelevantProducts returns the first min(3, k) of the k catalog
\* entries whose keyword, category or name occurs in the message (compared in
\* lower case), in catalog order: result j is the j-th matching entry
Qualifies(message, product) ==
  LET lower == toLowerCase(message)
  IN  \/ /\ product.keywords # <<>>
         /\ \E n \in DOMAIN product.keywords[1] :
              includes(lower, toLowerCase(product.keywords[1][n]))
      \/ /\ product.category # NULL
         /\ product.category # <<>>
         /\ includes(lower, toLowerCase(product.category))
      \/ includes(lower, toLowerCase(product.name))

C15_FirstThreeMatches ==
  http.route = "findRelevantProducts" =>
    LET message == req.args[1].message
        products == req.args[1].products
        matching == {i \in DOMAIN products : Qualifies(message, products[i])}
        k == Cardinality(matching)
        result == http.data
    IN  /\ Len(result) = IF k < 3 THEN k ELSE 3
        /\ \A j \in DOMAIN result :
             \E i \in matching :
               /\ Cardinality({x \in matching : x <= i}) = j
               /\ result[j] = products[i]

\* five entries, the second of which does not match: the first, third and
\* fourth are returned and the fifth match is cut off
C15_Witness ==
  /\ http.route = "findRelevantProducts"
  /\ Len(req.args[1].products) = 5
  /\ ~Qualifies(req.args[1].message, req.args[1].products[2])
  /\ \A i \in {1, 3, 4, 5} : Qualifies(req.args[1].message, req.args[1].products[i])
  /\ http.data = <<req.args[1].products[1], req.args[1].products[3],
                   req.args[1].products[4]>>
  /\ req.args[1].products[5] # req.args[1].products[4]

\* C20: formatPhoneNumber returns d followed by "@s.whatsapp.net", d being
\* the digits of the input in their order, with "1" put in front exactly
\* when there are ten of them and the first is not "1"
RECURSIVE DigitsOf(_)
DigitsOf(s) ==
  IF s = <<>> THEN <<>>
  ELSE IF Head(s) \in {"0","1","2","3","4","5","6","7","8","9"}
       THEN <<Head(s)>> \o DigitsOf(Tail(s))
       ELSE DigitsOf(Tail(s))

C20_FormatPhoneNumber ==
  http.route = "formatPhoneNumber" =>
    LET input == req.args[1]
        stripped == DigitsOf(input)
        result == http.data
        d == SubSeq(result, 1, Len(result) - 1)
    IN  /\ Len(result) >= 1
        /\ result[Len(result)] = "@s.whatsapp.net"
        /\ IF Len(stripped) = 10 /\ stripped[1] # "1"
           THEN d = <<"1">> \o stripped
           ELSE d = stripped

\* "555-5555555" becomes 15555555555, and an input of eleven digits is kept
C20_Witness ==
  /\ http.route = "formatPhoneNumber"
  /\ req.args[1] = <<"5","5","5","-","5","5","5","5","5","5","5">>
  /\ http.data = <<"1","5","5","5","5","5","5","5","5","5","5","@s.whatsapp.net">>

\* C19 (as stated): a PUT /api/leads/:id whose body carries a status outside
\* the enum is answered 400 without a call of the Store (no Store outcome is
\* consumed) and leaves every Lead as it was
C19_StatusValidated ==
  [][(/\ http' # http
      /\ http'.route = "lead"
      /\ "status" \in http'.data[1].body.present
      /\ http'.data[1].body.status \notin LeadStatuses)
     => (http'.status = 400 /\ leads' = leads /\ faults' = faults)]_vars

\* the two parts of C19 the route does implement: a body with no field of
\* the allow-list is answered 400 and changes nothing, and an answered
\* update changes no column other than the allow-listed ones the body
\* carries (and updated_at)
C19_AllowListOnly ==
  [][(http' # http /\ http'.route = "lead") =>
       LET body == http'.data[1].body
           id == http'.limit
       IN  /\ (body.present \cap {"customer_name", "city", "status", "needs_human_agent"} = {})
                => (http'.status = 400 /\ leads' = leads)
           /\ http'.status # 200 => leads' = leads
           /\ http'.status = 200 =>
                /\ \A i \in DOMAIN leads : i # id => leads'[i] = leads[i]
                /\ "customer_name" \notin body.present
                     => leads'[id].customer_name = leads[id].customer_name
                /\ "status" \notin body.present => leads'[id].status = leads[id].status
                /\ "needs_human_agent" \notin body.present
                     => leads'[id].needs_human_agent = leads[id].needs_human_agent
                /\ "city" \notin body.present => leads'[id].city = leads[id].city]_vars

\* C16: no step of the gateway replaces a known customer_name or city by
\* null: a step that changes one of the two columns of a Lead is the
\* updateLead of a handler of that Lead's phone number, and the new value is
\* the non-null value extracted from the message that handler is handling
ExtractedBy(h) == extractCustomerInfo(messageText(Cur(h)))

Updating(h) ==
  /\ handlers[h].pc = "update"
  /\ handlers'[h].pc = "save_asst"

KnownFieldsKept(i) ==
  /\ leads'[i].customer_name # leads[i].customer_name =>
       /\ leads'[i].customer_name # NULL
       /\ \E h \in DOMAIN handlers :
            /\ Updating(h)
            /\ phoneNumberOf(h) = leads[i].phone_number
            /\ leads'[i].customer_name = ExtractedBy(h).name
  /\ leads'[i].city # leads[i].city =>
       /\ leads'[i].city # NULL
       /\ \E h \in DOMAIN handlers :
            /\ Updating(h)
            /\ phoneNumberOf(h) = leads[i].phone_number
            /\ leads'[i].city = ExtractedBy(h).city

C16_KnownFieldsKept == [][\A i \in DOMAIN leads : KnownFieldsKept(i)]_vars

\* a name and a city learnt from two messages, each of which matched only
\* one of the two: both are known after both messages were handled
C16_Witness ==
  /\ Len(leads) = 1
  /\ leads[1].customer_name = <<"B","o","b">>
  /\ leads[1].city = <<"R","o","m","e">>
  /\ Len(handlers) = 1
  /\ handlers[1].pc = "done"
  /\ handlers[1].size = 2

\* C17 (as stated): inbound messages are handled one at a time, also across
\* messages.upsert events: no two listeners are in the middle of handling a
\* message (past the entry of handleIncomingMessage and not yet returned)
MidMessage(h) == handlers[h].pc \notin {"start", "done"}

C17_OneAtATime ==
  \A h1, h2 \in DOMAIN handlers : (MidMessage(h1) /\ MidMessage(h2)) => h1 = h2

\* the part of C17 the for loop of the listener does give: the messages of
\* ONE event are handled in order, a message being entered only when all
\* earlier messages of that event have returned
C17_OneAtATimePerEvent ==
  \A h \in DOMAIN handlers :
    /\ handlers[h].handled + Len(handlers[h].rest) = handlers[h].size
    /\ MidMessage(h) => handlers[h].rest # <<>>

\* C18: nothing in the gateway keeps the handling of two messages of one
\* phone number apart. While a model call of a phone is in flight, an event
\* with another message of that phone is accepted, and a second listener of
\* that phone that has reached its model call can make it; of two calls in
\* flight either can return first; of two replies ready to be stored either
\* can be stored first.
SamePhone(h1, h2) ==
  /\ h1 # h2
  /\ Running(h1) /\ Running(h2)
  /\ phoneNumberOf(h1) = phoneNumberOf(h2)

C18_NothingExcludesOverlap ==
  /\ \A h \in DOMAIN handlers :
       (handlers[h].pc = "model" /\ Len(handlers) < MaxEvents /\ inbound < MaxInbound)
         => ENABLED Upsert("notify", <<Msg(phoneNumberOf(h), FALSE, txtHi, NULL)>>)
  /\ \A h1, h2 \in DOMAIN handlers :
       SamePhone(h1, h2) =>
         /\ (handlers[h1].pc = "model" /\ handlers[h2].pc = "respond")
              => ENABLED Respond(h2)
         /\ (handlers[h1].pc = "model" /\ handlers[h2].pc = "model")
              => ENABLED Model(h2)
         /\ (handlers[h1].pc = "save_asst" /\ handlers[h2].pc = "save_asst")
              => ENABLED SaveAssistant(h2)

\* two model calls of one phone number in flight at the same time
C18_TwoCallsInFlight ==
  /\ Len(handlers) = 2
  /\ handlers[1].pc = "model" /\ handlers[2].pc = "model"
  /\ phoneNumberOf(1) = jidA /\ phoneNumberOf(2) = jidA
  /\ Len(ollamaCalls) = 2

\* "i am bob" arrived before "hi" from the same phone, both user turns were
\* stored in that order and both model calls were made before any reply was
\* stored; the reply to "hi" was stored before the reply to "i am bob"
C18_Witness ==
  /\ Len(handlers) = 2
  /\ handlers[1].pc = "done" /\ handlers[1].size = 1
  /\ handlers[2].pc = "done" /\ handlers[2].size = 1
  /\ Len(chat_history) = 4
  /\ \A i \in 1..4 : chat_history[i].phone_number = jidA
  /\ chat_history[1].role = "user" /\ chat_history[1].message = txtName
  /\ chat_history[2].role = "user" /\ chat_history[2].message = txtHi
  /\ chat_history[3].role = "assistant"
  /\ chat_history[3].metadata.extractedInfo.name = NULL
  /\ chat_history[4].role = "assistant"
  /\ chat_history[4].metadata.extractedInfo.name = <<"B","o","b">>
  /\ Len(ollamaCalls) = 2
  /\ \A c \in 1..2 : \A n \in DOMAIN ollamaCalls[c].messages :
       ollamaCalls[c].messages[n].role = "user"

\* C21 (as stated): every stored ChatTurn and every stored Order carries the
\* phone number of the Lead its lead_id refers to
C21_PhoneIsJoinKey ==
  /\ \A i \in DOMAIN orders :
       /\ orders[i].lead_id \in DOMAIN leads
       /\ orders[i].phone_number = leads[orders[i].lead_id].phone_number
  /\ \A i \in DOMAIN chat_history :
       /\ chat_history[i].lead_id \in DOMAIN leads
       /\ chat_history[i].phone_number = leads[chat_history[i].lead_id].phone_number

\* C29 (as stated): when createOrder ends with an error (POST /api/orders
\* answers 500), the order it was creating is not in the orders table and
\* the Lead it names has the status it had
C29_AllOrNothing ==
  [][(req.route = "createOrder" /\ req' = NoReq /\ http'.status = 500)
       => /\ \A i \in DOMAIN orders' : orders'[i].id # req.acc[1].id
          /\ leads' = leads]_vars

\* the half of C29 that holds: an error of createOrder leaves every Lead as
\* it was, and an error before or at the INSERT leaves orders as it was
C29_LeadUntouchedOnError ==
  [][(http' # http /\ http'.route = "order" /\ http'.status # 201)
       => /\ leads' = leads
          /\ orders' = orders]_vars

\* C22 (as stated): a broadcast sends to its recipients one after another
\* in input order, a send starting only when the one before has completed,
\* and the fixed delay elapses between one send and the next: a step in which
\* sock.sendMessage is called for a recipient is the start of the broadcast
\* or the step in which the 2000 ms timer fires
InFlight(r) == r.route = "broadcast" /\ r.pc = "sendMessage"

SendStarts ==
  /\ InFlight(req')
  /\ \/ ~InFlight(req)
     \/ Len(req'.acc[1].rest) < Len(req.acc[1].rest)

C22_DelayBetweenSends ==
  [][SendStarts => (req = NoReq \/ req.pc = "setTimeout")]_vars

\* the parts of C22 that hold: the recipient whose send is in flight is the
\* first entry of the list not yet recorded, the entries before it are
\* recorded, in their order, as successes or failures, and a send starts only
\* from a broadcast that has no send in flight or whose send has just settled
C22_OneAtATimeInOrder ==
  req.route = "broadcast" =>
    LET list == req.args[1].phoneNumbers
        results == req.acc[1]
        done == Len(results.success) + Len(results.failed)
    IN  /\ done + Len(results.rest) = Len(list)
        /\ results.rest = SubSeq(list, done + 1, Len(list))
        /\ InFlight(req) => results.rest # <<>>
        /\ \A i, j \in DOMAIN results.success :
             i < j => \E m, n \in 1..done :
                        m < n /\ list[m] = results.success[i] /\ list[n] = results.success[j]

\* C23: the steps of handling a message of a Lead that is not flagged come
\* in the order user turn, history, Responder, handoff flag, profile update,
\* assistant turn, reply, each after the one before succeeded: a handler
\* past a step finds the effect of that step in the store, a model call is
\* made only by a handler whose user turn is stored, and a reply is sent
\* only by a handler whose assistant turn is stored
UserTurnStored(h) ==
  \E i \in DOMAIN chat_history :
    /\ chat_history[i].role = "user"
    /\ chat_history[i].lead_id = handlers[h].lead.id
    /\ chat_history[i].phone_number = phoneNumberOf(h)
    /\ chat_history[i].message = messageText(Cur(h))

AssistantTurnStored(h) ==
  \E i \in DOMAIN chat_history :
    /\ chat_history[i].role = "assistant"
    /\ chat_history[i].lead_id = handlers[h].lead.id
    /\ chat_history[i].phone_number = phoneNumberOf(h)
    /\ chat_history[i].message = handlers[h].response.message
    /\ \E j \in 1..(i - 1) :
         /\ chat_history[j].role = "user"
         /\ chat_history[j].message = messageText(Cur(h))
         /\ chat_history[j].phone_number = phoneNumberOf(h)

StepsInOrder(h) ==
  LET hr == handlers[h]
      response == hr.response
  IN  /\ hr.pc \in {"history", "respond", "model", "mark", "update", "save_asst", "send"}
           => (UserTurnStored(h) /\ ~hr.lead.needs_human_agent)
      /\ hr.pc \in {"mark", "update", "save_asst", "send"} => response # NoResponse
      /\ (hr.pc \in {"update", "save_asst", "send"} /\ response.metadata.agentRequested)
           => leads[hr.lead.id].needs_human_agent
      /\ (hr.pc \in {"save_asst", "send"} /\ HasUpdates(response))
           => /\ Truthy(response.metadata.extractedInfo.name)
                   => leads[hr.lead.id].customer_name # NULL
              /\ Truthy(response.metadata.extractedInfo.city)
                   => leads[hr.lead.id].city # NULL
      /\ hr.pc = "send" => AssistantTurnStored(h)

ModelCallStep ==
  ollamaCalls' # ollamaCalls =>
    \E h \in DOMAIN handlers :
      /\ handlers[h].pc = "respond" /\ handlers'[h].pc = "model"
      /\ UserTurnStored(h)
      /\ ollamaCalls' = Append(ollamaCalls, ollamaCalls'[Len(ollamaCalls')])
      /\ ollamaCalls'[Len(ollamaCalls')].phone = phoneNumberOf(h)

ReplyStep ==
  (sent' # sent /\ sent'[Len(sent')].text \notin {HumanSoonReply, ApologyReply}) =>
    \E h \in DOMAIN handlers :
      /\ handlers[h].pc = "send"
      /\ AssistantTurnStored(h)
      /\ sent' = Append(sent, [to |-> phoneNumberOf(h),
                               text |-> handlers[h].response.message])

C23_StepsInOrder ==
  /\ [](\A h \in DOMAIN handlers : StepsInOrder(h))
  /\ [][ModelCallStep /\ ReplyStep]_vars

\* "i am bob" was handled to the end: both turns are stored, the Lead has
\* the name, and the model reply went out
C23_Witness ==
  /\ Len(handlers) = 1 /\ handlers[1].pc = "done" /\ handlers[1].size = 1
  /\ Len(chat_history) = 2
  /\ chat_history[1].role = "user" /\ chat_history[1].message = txtName
  /\ chat_history[2].role = "assistant" /\ chat_history[2].message = ModelReply
  /\ leads[1].customer_name = <<"B","o","b">>
  /\ Len(ollamaCalls) = 1
  /\ sent = <<[to |-> jidA, text |-> ModelReply]>>

\* C24 (as stated): while the Lead of a phone has needs_human_agent set, no
\* model call is made for that phone and no model-generated assistant turn
\* is stored for it, whichever handler takes the step
Flagged(phoneNumber) ==
  \E i \in DOMAIN leads :
    leads[i].phone_number = phoneNumber /\ leads[i].needs_human_agent

C24_NoModelAfterHandoff ==
  [][/\ ollamaCalls' # ollamaCalls
          => ~Flagged(ollamaCalls'[Len(ollamaCalls')].phone)
     /\ (/\ chat_history' # chat_history
         /\ chat_history'[Len(chat_history')].role = "assistant"
         /\ chat_history'[Len(chat_history')].message = ModelReply)
          => ~Flagged(chat_history'[Len(chat_history')].phone_number)]_vars

\* what the test of lead.needs_human_agent does give: a handler that read
\* the Lead after the flag was set makes no model call and stores no
\* assistant turn
C24_FlagSeenStopsHandler ==
  \A h \in DOMAIN handlers :
    handlers[h].lead.needs_human_agent
      => handlers[h].pc \in {"save_user", "send_human"}

\* C25: isConnected is true exactly when the socket held in sock has
\* reported 'open' and no 'close' since; the flag changes only in a step in
\* which that socket reports; and a close leads to at most one replacement:
\* of live sockets and pending reconnects there is never more than one
LiveSockets == {s \in DOMAIN socks : socks[s] \in {"connecting", "open"}}

FlagFollowsCurrentSocket ==
  /\ isConnected <=> (sock \in DOMAIN socks /\ socks[sock] = "open")
  /\ Cardinality(LiveSockets) + timers <= 1
  /\ LiveSockets \subseteq {sock}

C26_CurrentMessageOnce ==
  [][ollamaCalls' # ollamaCalls =>
       LET call == ollamaCalls'[Len(ollamaCalls')]
           current == call.messages[Len(call.messages)]
           stored == {i \in DOMAIN chat_history :
                        /\ chat_history[i].role = "user"
                        /\ chat_history[i].phone_number = call.phone
                        /\ chat_history[i].message = current.content}
       IN  /\ current.role = "user"
           /\ Occurrences(call.messages, current) <= Cardinality(stored)]_vars

\* what does hold: the list ends with the message being handled, and before
\* it come the turns getChatHistory returned, in their order
C26_HistoryThenCurrent ==
  [][ollamaCalls' # ollamaCalls =>
       \E h \in DOMAIN handlers :
         /\ handlers[h].pc = "respond"
         /\ ollamaCalls'[Len(ollamaCalls')].messages =
              OllamaMessages(Append(handlers[h].chatHistory,
                                    [role |-> "user", message |-> messageText(Cur(h))]))]_vars

\* C27 (as stated): the counts of an answer of GET /api/leads/stats are
\* consistent: neither the converted leads nor the leads that need a human
\* agent are more than the total
C27_CountsConsistent ==
  (http.route = "stats" /\ http.status = 200) =>
     LET stats == http.data[1]
     IN  /\ stats.convertedLeads <= stats.totalLeads
         /\ stats.needsHumanAgent <= stats.totalLeads

\* what does hold: no count is more than the number of leads there are when
\* getStatistics returns
C27_CountsBelowLeadsAtReturn ==
  (http.route = "stats" /\ http.status = 200) =>
     LET stats == http.data[1]
     IN  /\ stats.totalLeads <= Len(leads)
         /\ stats.convertedLeads <= Len(leads)
         /\ stats.needsHumanAgent <= Len(leads)

\* C30 (as stated): the status of a lead never moves backwards along new,
\* contacted, qualified, converted: a lead that an order has converted stays
\* converted whatever message of its phone is handled afterwards
StatusRank(status) ==
  CASE status = "new" -> 1
    [] status = "contacted" -> 2
    [] status = "qualified" -> 3
    [] status = "converted" -> 4
    [] OTHER -> 5

C30_StatusNeverBackwards ==
  [][\A i \in DOMAIN leads :
       StatusRank(leads'[i].status) >= StatusRank(leads[i].status)]_vars

\* what does hold: the only step that moves a status backwards is the UPDATE
\* of markForHumanAgent, which leaves the lead qualified and flagged
C30_OnlyHandoffMovesBack ==
  [][\A i \in DOMAIN leads :
       StatusRank(leads'[i].status) < StatusRank(leads[i].status) =>
         /\ leads'[i].status = "qualified"
         /\ leads'[i].needs_human_agent
         /\ \E h \in DOMAIN handlers : handlers[h].pc = "mark"]_vars

\* C28: for each accepted inbound message at most one outbound message is
\* delivered. A step delivers at most one message; the step that delivers is
\* the last step of handling an accepted message, so nothing is delivered
\* for that message afterwards; the apology is what is delivered exactly
\* when the step is the one of the catch block; and no more messages have
\* been delivered than messages have been handled to the end
RECURSIVE HandledCount(_)
HandledCount(hs) ==
  IF hs = <<>> THEN 0 ELSE hs[1].handled + HandledCount(Tail(hs))

DeliveryEndsHandling ==
  /\ Len(sent') <= Len(sent) + 1
  /\ sent' # sent =>
       /\ SubSeq(sent', 1, Len(sent)) = sent
       /\ \E h \in DOMAIN handlers :
            /\ handlers[h].pc \in {"send", "send_human", "catch"}
            /\ ~Ignored(Cur(h))
            /\ handlers' = [handlers EXCEPT ![h] = Finish(@)]
            /\ sent'[Len(sent')].to = phoneNumberOf(h)
            /\ (sent'[Len(sent')].text = ApologyReply) <=> (handlers[h].pc = "catch")

C28_AtMostOneDelivery ==
  /\ [](Len(sent) <= HandledCount(handlers))
  /\ [][DeliveryEndsHandling]_vars

\* a reply that could not be sent was followed by the apology, which is the
\* one message delivered for the one message handled
C28_Witness ==
  /\ Len(sent) = 1
  /\ sent[1].text = ApologyReply
  /\ HandledCount(handlers) = 1
  /\ ollamaCalls # <<>>
  /\ \E i \in DOMAIN chat_history : chat_history[i].role = "assistant"

====
